---- MODULE Spec2Model ----
(***************************************************************************)
(* Balance ledger of the finance/accounting backend                        *)
(* (Web/Full-Stack/backend): the users, courses, enrollments, payments,    *)
(* penalties, notifications and action_logs tables and the request         *)
(* handlers of routes/students.py, routes/finance.py and routes/courses.py *)
(* that read and write them.  Money is counted in whole currency units.    *)
(* Every handler is one action: it runs from its first line to its commit  *)
(* (or to the return that rejects the request) and leaves its HTTP status  *)
(* and error in resp.                                                      *)
(***************************************************************************)
EXTENDS Integers, Sequences, FiniteSets, TLC

\* ------------------------------------------------------------------ bounds
MaxNotifications == 2   \* rows the notifications table may hold
MaxPayments == 2        \* rows the payments table may hold
MaxPenalties == 2       \* rows the penalties table may hold
MaxEnrollments == 4     \* enrollment rows ever created (ids 1..MaxEnrollments)
MaxEntries == 2         \* entries in the transactions list of one import
MaxReports == 2         \* rows the generated_reports table may hold
MaxClock == 45          \* days the clock runs

\* --------------------------------------------------------------- the data
StudentIds == {1, 2}            \* users rows with is_admin = False
AdminIds == {3}                 \* users rows with is_admin = True
UserIds == StudentIds \cup AdminIds
Identities == UserIds \cup {4}  \* 4: an id with no users row
Callers == AdminIds \cup {1}    \* who calls an admin endpoint: an admin, a student
Students == {1, 4}              \* who calls a student endpoint
Targets == {1, 3, 4}            \* the student_id an admin request names
CourseIds == {1, 2}             \* courses rows of the initial catalogue
CourseIdInputs == CourseIds \cup {3}   \* 3: an id with no courses row
CourseCode == <<"CS101", "ENG101">>    \* Course.course_id of the initial rows
AmountInputs == {-1, 0, 1, 2}            \* the amount field of a request
FeeInputs == {-1, 0, 2}                \* the total_fee field of a request
NoValue == "None"                      \* Python's None
NoId == 0                              \* NULL in a foreign-key column (ids start at 1)
\* request.args.get('min_amount', type=float) and max_amount: not given, or
\* a number
AmountFilter(given, value) == [given |-> given, value |-> value]
AmountFilters == {AmountFilter(FALSE, 0), AmountFilter(TRUE, 2)}
\* request.args.get('sort_by', 'dues_balance')
SortInputs == {"dues_balance", "username"}
\* the place of User.username in the order of the usernames: "admin",
\* "student1", "student2"
UsernameRank == [u \in UserIds |-> IF u \in AdminIds THEN 0 ELSE u]
\* the workers that serve /pay requests at the same time
WorkerIds == {1, 2}
\* what a match request carries: a payment_id, or create_payment with a
\* student_id, or neither
MatchModes == {"payment_id", "create_payment", "invalid"}
TransactionIdInputs == {1, 2}       \* the transaction_id of a match request
PaymentIdInputs == {1, 2}              \* the payment_id field of a match request
\* ONLINE and every other method string take the branches MANUAL takes.
PaymentMethods == {"MANUAL", "BANK_TRANSFER"}
\* request.files['proof_document']: absent, or a file whose extension is not
\* in ALLOWED_EXTENSIONS (a file with an allowed one is stored and the request
\* goes on as without a file).
ProofInputs == {"none", "disallowed"}
\* datetime.now(timezone.utc) at the time of a request
UtcNow == "2025-12-10T15:30:00"
Timestamps == {UtcNow}
\* A datetime that the code compares, counted in minutes since
\* 2025-12-01T00:00:00 UTC.
MinutesPerDay == 1440
Instant(ts) == CASE ts = UtcNow -> 9 * MinutesPerDay + 930
\* timedelta(days=7)
Week == 7 * MinutesPerDay
\* The entries of an import request. A field is a JSON value kept as its
\* text; "absent" is a key the entry does not have, NoValue a JSON null.
\* date: a day less than a week before a payment made at UtcNow, a day more
\* than a week before it, and a date that is not in the format '%Y-%m-%d'.
Entry(bank_re, amount, date) == [bank_re |-> bank_re, amount |-> amount, date |-> date]
EntryInputs ==
    {Entry("TXN-1", "1", "2025-12-04"), Entry("TXN-1", "2", "04/12/2025"),
     Entry("TXN-2", "2", "2025-12-03"),
     Entry("absent", "1", "2025-12-04"), Entry("TXN-2", "absent", "2025-12-04"),
     Entry("TXN-2", "1", "absent"), Entry("TXN-2", NoValue, "2025-12-04")}
\* the transactions field of an import request: up to MaxEntries entries
TransactionLists == UNION {[1 .. n -> EntryInputs] : n \in 0 .. MaxEntries}
\* the order in which the store returns the rows of a query without ORDER BY
RowOrders == {"ascending", "descending"}
\* the reason field of a block request (its default)
ReasonInputs == {"Outstanding dues"}
\* the ids a bulk request may list: two students and an id with no users row
BulkIds == {1, 2, 4}
\* the student_ids field of a bulk request: the empty list, the lists that
\* name ids of BulkIds once each, in every order, and a list that names a
\* student twice
StudentIdLists ==
    {l \in UNION {[1 .. n -> BulkIds] : n \in 0 .. Cardinality(BulkIds)} :
        \A i, j \in DOMAIN l : l[i] = l[j] => i = j}
    \cup {<<2, 2>>}

VARIABLES
    users,          \* id -> [is_admin, dues_balance, is_blocked, blocked_at,
                    \*        blocked_reason]                       (users table)
    courses,        \* id -> [course_id, total_fee]                       (courses table)
    enrollments,    \* set of [id, student_id, course_id, course_fee]
    enrollment_seq, \* ids handed out to enrollments so far
    payments,       \* sequence of payments rows, id = position
    penalties,      \* sequence of penalties rows
    notifications,  \* sequence of notifications rows
    action_logs,    \* sequence of action_logs rows
    bank_transactions, \* sequence of bank_transactions rows, id = position
    generated_reports, \* set of generated_reports rows
    clock,          \* datetime.now(timezone.utc), in days since 2025-12-10
    workers,        \* worker -> the /pay request it is serving, with the
                    \*           users row it holds in its session
    resp            \* the last request and its response

vars == <<users, courses, enrollments, enrollment_seq, payments, penalties,
          notifications, action_logs, bank_transactions, generated_reports, clock,
          workers, resp>>

ledger == <<users, courses, enrollments, enrollment_seq, payments, penalties,
            notifications, action_logs, bank_transactions, generated_reports, clock,
            workers>>

\* ---------------------------------------------------------------- reports
\* datetime.now(timezone.utc).year, the clock counting days from 2025-12-10
Year(days) == IF days < 22 THEN 2025 ELSE 2026

\* datetime.now(timezone.utc); a datetime is the day it falls on and
\* whether it carries a tzinfo
Now == [days |-> clock, tzinfo |-> TRUE]

\* timedelta(days=30)
Retention == 30

ReportTypeInputs == {"finance_overview", "other", NoValue}

\* a worker that serves no request
Idle == [pc |-> "idle", student_id |-> NoId, course_id |-> NoId, amount |-> 0,
         payment_method |-> NoValue, dues_balance |-> 0]

\* User.query.get / Course.query.get
UserExists(id) == id \in DOMAIN users
CourseExists(id) == id \in DOMAIN courses

\* The request and what the handler returned for it.
\* What a handler returns: the HTTP status and the "error" of the JSON body.
\* "details" is the per-student list a bulk endpoint returns with 200.
BulkResponse(op, status, error, details) ==
    [op |-> op, status |-> status, error |-> error, details |-> details]

Response(op, status, error) == BulkResponse(op, status, error, <<>>)

\* ------------------------------------------------------------ table rows
\* User(is_admin=..., dues_balance=...), is_blocked False and blocked_at and
\* blocked_reason NULL by default
User(is_admin, dues_balance) ==
    [is_admin |-> is_admin, dues_balance |-> dues_balance,
     is_blocked |-> FALSE, blocked_at |-> NoValue, blocked_reason |-> NoValue]

Enrollment(id, student_id, course_id, course_fee) ==
    [id |-> id, student_id |-> student_id, course_id |-> course_id,
     course_fee |-> course_fee]

Payment(student_id, amount, payment_method, status, recorded_by) ==
    [student_id |-> student_id, amount |-> amount,
     payment_method |-> payment_method, status |-> status,
     recorded_by |-> recorded_by, payment_date |-> Instant(UtcNow)]

Notification(student_id, notification_type) ==
    [student_id |-> student_id, notification_type |-> notification_type]

ActionLog(student_id, action_type, performed_by) ==
    [student_id |-> student_id, action_type |-> action_type,
     performed_by |-> performed_by]

\* The database as seed.py leaves it, before any payment: the courses, an
\* admin, and the students, student s enrolled in course s at its fee, with
\* dues_balance the sum of the fees of their enrollments.  Seeded rows have
\* no notifications or action_logs rows.
Init ==
    /\ users = [u \in UserIds |->
                   User(u \in AdminIds, IF u \in StudentIds THEN u ELSE 0)]
    /\ courses = [c \in CourseIds |-> [course_id |-> CourseCode[c], total_fee |-> c]]
    /\ enrollments = {Enrollment(s, s, s, s) : s \in StudentIds}
    /\ enrollment_seq = Cardinality(StudentIds)
    /\ payments = <<>>
    /\ penalties = <<>>
    /\ notifications = <<>>
    /\ action_logs = <<>>
    /\ bank_transactions = <<>>
    /\ generated_reports = {}
    /\ clock = 0
    /\ workers = [w \in WorkerIds |-> Idle]
    /\ resp = Response("none", 0, "")

\* Enrollment.query.filter_by(student_id=..., course_id=...)
EnrollmentsOf(student_id, course_id) ==
    {e \in enrollments : e.student_id = student_id /\ e.course_id = course_id}

\* Payment.query.filter_by(student_id=student_id).count()
PaymentCount(student_id) ==
    Cardinality({i \in 1 .. Len(payments) : payments[i].student_id = student_id})

SetBalance(student_id, balance) ==
    [users EXCEPT ![student_id].dues_balance = balance]

\* ------------------------------------------------ POST /api/students/enroll
\* the duplicate check left out
AlreadyEnrolled_unchecked(student_id, course_id) == FALSE

\* a blocked student taken for enrolled
AlreadyEnrolled_or_blocked(student_id, course_id) ==
    EnrollmentsOf(student_id, course_id) # {} \/ users[student_id].is_blocked

\* existing_enrollment = Enrollment.query.filter_by(...).first()
AlreadyEnrolled(student_id, course_id) == EnrollmentsOf(student_id, course_id) # {}

\* the balance left as it was
EnrolledBalance_unbilled(balance, course) == balance

\* student.dues_balance += course.total_fee
EnrolledBalance(balance, course) == balance + course.total_fee

enroll_course(student_id, course_id) ==
    /\ IF ~UserExists(student_id)
       THEN /\ resp' = Response("enroll", 404, "Student not found")
            /\ UNCHANGED ledger
       ELSE IF ~CourseExists(course_id)
       THEN /\ resp' = Response("enroll", 404, "Course not found")
            /\ UNCHANGED ledger
       ELSE IF AlreadyEnrolled(student_id, course_id)
       THEN /\ resp' = Response("enroll", 400, "Already enrolled in this course")
            /\ UNCHANGED ledger
       ELSE /\ enrollment_seq < MaxEnrollments
            /\ Len(notifications) < MaxNotifications
            /\ enrollment_seq' = enrollment_seq + 1
            /\ enrollments' = enrollments \cup
                   {Enrollment(enrollment_seq + 1, student_id, course_id,
                               courses[course_id].total_fee)}
            /\ users' = SetBalance(student_id,
                   EnrolledBalance(users[student_id].dues_balance, courses[course_id]))
            /\ notifications' = Append(notifications,
                   Notification(student_id, "ENROLLMENT"))
            /\ action_logs' = Append(action_logs,
                   ActionLog(student_id, "ENROLLMENT", student_id))
            /\ resp' = Response("enroll", 201, "")
            /\ UNCHANGED <<generated_reports, clock, workers, bank_transactions, courses, payments, penalties>>

\* The same handler served by a worker next to other workers, in its two
\* steps on the database: the reads with the checks made on them, and the
\* commit.  The worker keeps the users row and the courses row it loaded.
enroll_course_read(w, student_id, course_id) ==
    /\ workers[w].pc = "idle"
    /\ IF ~UserExists(student_id)
       THEN /\ resp' = Response("enroll", 404, "Student not found")
            /\ UNCHANGED ledger
       ELSE IF ~CourseExists(course_id)
       THEN /\ resp' = Response("enroll", 404, "Course not found")
            /\ UNCHANGED ledger
       ELSE IF AlreadyEnrolled(student_id, course_id)
       THEN /\ resp' = Response("enroll", 400, "Already enrolled in this course")
            /\ UNCHANGED ledger
       ELSE /\ workers' = [workers EXCEPT ![w] =
                   [pc |-> "checked", student_id |-> student_id,
                    course_id |-> course_id,
                    amount |-> courses[course_id].total_fee,
                    payment_method |-> NoValue,
                    dues_balance |-> users[student_id].dues_balance]]
            /\ UNCHANGED <<users, courses, enrollments, enrollment_seq, payments,
                           penalties, notifications, action_logs, bank_transactions,
                           generated_reports, clock, resp>>

\* the constraint left out of the table
PairTaken_unenforced(student_id, course_id) == FALSE

\* db.UniqueConstraint('student_id', 'course_id', name='unique_student_course'):
\* the INSERT of a second row for the pair raises IntegrityError
PairTaken(student_id, course_id) == EnrollmentsOf(student_id, course_id) # {}

\* db.session.commit(): UPDATE users SET dues_balance = <the value Python
\* computed from the balance read> and the INSERTs, in one transaction; when
\* the INSERT raises, the except branch rolls back and answers 500.
enroll_course_commit(w) ==
    LET request == workers[w] IN
    /\ request.pc = "checked"
    /\ workers' = [workers EXCEPT ![w] = Idle]
    /\ IF PairTaken(request.student_id, request.course_id)
       THEN /\ resp' = Response("enroll", 500, "Enrollment failed")
            /\ UNCHANGED <<users, courses, enrollments, enrollment_seq, payments,
                           penalties, notifications, action_logs, bank_transactions,
                           generated_reports, clock>>
       ELSE /\ enrollment_seq < MaxEnrollments
            /\ Len(notifications) < MaxNotifications
            /\ enrollment_seq' = enrollment_seq + 1
            /\ enrollments' = enrollments \cup
                   {Enrollment(enrollment_seq + 1, request.student_id,
                               request.course_id, request.amount)}
            /\ users' = SetBalance(request.student_id,
                   EnrolledBalance(request.dues_balance, [total_fee |-> request.amount]))
            /\ notifications' = Append(notifications,
                   Notification(request.student_id, "ENROLLMENT"))
            /\ action_logs' = Append(action_logs,
                   ActionLog(request.student_id, "ENROLLMENT", request.student_id))
            /\ resp' = Response("enroll", 201, "")
            /\ UNCHANGED <<courses, payments, penalties, bank_transactions,
                           generated_reports, clock>>

\* --------------------------------- DELETE /api/students/enroll/<course_id>
\* the clamp at 0 left out
DroppedBalance_unclamped(balance, course_fee) == balance - course_fee

\* student.dues_balance -= course_fee; if student.dues_balance < 0: ... = 0
DroppedBalance(balance, course_fee) ==
    IF balance - course_fee < 0 THEN 0 ELSE balance - course_fee

\* the course's fee of today in place of the enrollment's snapshot
DropFee_current(enrollment) == courses[enrollment.course_id].total_fee

\* course_fee = enrollment.course_fee
DropFee(enrollment) == enrollment.course_fee

\* only the payments that were received counted
HasPayments_received(student_id) ==
    \E i \in 1 .. Len(payments) :
        payments[i].student_id = student_id /\ payments[i].status = "RECEIVED"

\* payment_count > 0: the student has a payments row, whatever its status
HasPayments(student_id) == PaymentCount(student_id) > 0

drop_course(student_id, course_id) ==
    /\ IF ~UserExists(student_id)
       THEN /\ resp' = Response("drop", 404, "Student not found")
            /\ UNCHANGED ledger
       ELSE IF EnrollmentsOf(student_id, course_id) = {}
       THEN /\ resp' = Response("drop", 404, "Enrollment not found")
            /\ UNCHANGED ledger
       ELSE IF HasPayments(student_id)
       THEN /\ resp' = Response("drop", 400, "Cannot drop course after payments have been made")
            /\ UNCHANGED ledger
       ELSE \E enrollment \in EnrollmentsOf(student_id, course_id) :
            /\ Len(notifications) < MaxNotifications
            /\ users' = SetBalance(student_id,
                   DroppedBalance(users[student_id].dues_balance,
                                  DropFee(enrollment)))
            /\ enrollments' = enrollments \ {enrollment}
            /\ notifications' = Append(notifications,
                   Notification(student_id, "DROP_COURSE"))
            /\ resp' = Response("drop", 200, "")
            /\ UNCHANGED <<generated_reports, clock, workers, bank_transactions, courses, enrollment_seq, payments, penalties,
                           action_logs>>

\* --------------------------------------------------- POST /api/students/pay
\* the overpayment check left out
ExceedsDues_unchecked(payment_method, amount, balance) == FALSE

\* payment_method != 'BANK_TRANSFER' and amount > student.dues_balance
ExceedsDues(payment_method, amount, balance) ==
    payment_method # "BANK_TRANSFER" /\ amount > balance

\* every payment taken as received
PaymentStatus_received(payment_method) == "RECEIVED"

\* status = 'RECEIVED'; if payment_method == 'BANK_TRANSFER': status = 'PENDING'
PaymentStatus(payment_method) ==
    IF payment_method = "BANK_TRANSFER" THEN "PENDING" ELSE "RECEIVED"

\* one unit too many taken off the balance
PaidBalance_off_by_one(status, balance, amount) ==
    IF status = "RECEIVED" THEN balance - amount - 1 ELSE balance

\* the amount taken off the balance whatever the status
PaidBalance_any_status(status, balance, amount) == balance - amount

\* if status == 'RECEIVED': student.dues_balance -= amount
PaidBalance(status, balance, amount) ==
    IF status = "RECEIVED" THEN balance - amount ELSE balance

make_payment(student_id, amount, payment_method, proof) ==
    /\ IF amount <= 0
       THEN /\ resp' = Response("pay", 400, "Amount must be a number greater than 0")
            /\ UNCHANGED ledger
       ELSE IF ~UserExists(student_id)
       THEN /\ resp' = Response("pay", 404, "Student not found")
            /\ UNCHANGED ledger
       ELSE IF ExceedsDues(payment_method, amount, users[student_id].dues_balance)
       THEN /\ resp' = Response("pay", 400, "Payment amount exceeds outstanding dues")
            /\ UNCHANGED ledger
       ELSE IF proof = "disallowed"
       THEN /\ resp' = Response("pay", 400, "Invalid file type")
            /\ UNCHANGED ledger
       ELSE LET status == PaymentStatus(payment_method) IN
            /\ Len(notifications) < MaxNotifications
            /\ Len(payments) < MaxPayments
            /\ payments' = Append(payments,
                   Payment(student_id, amount, payment_method, status, NoValue))
            /\ users' = SetBalance(student_id,
                   PaidBalance(status, users[student_id].dues_balance, amount))
            /\ notifications' = Append(notifications,
                   Notification(student_id,
                       IF status = "RECEIVED" THEN "PAYMENT_RECEIVED"
                                              ELSE "PAYMENT_SUBMITTED"))
            /\ resp' = Response("pay", 201, "")
            /\ UNCHANGED <<generated_reports, clock, workers, bank_transactions, courses, enrollments, enrollment_seq, penalties,
                           action_logs>>

\* The same handler served by a worker next to other workers, in its two
\* steps on the database: the read of the users row with the checks made on
\* it, and the commit.  make_payment above is the two steps with no other
\* request in between.
\* student = User.query.get(student_id) ... if payment_method != 'BANK_TRANSFER'
\* and amount > student.dues_balance: 400
make_payment_read(w, student_id, amount, payment_method) ==
    /\ workers[w].pc = "idle"
    /\ amount > 0
    /\ UserExists(student_id)
    /\ ~ExceedsDues(payment_method, amount, users[student_id].dues_balance)
    /\ workers' = [workers EXCEPT ![w] =
                      [pc |-> "read", student_id |-> student_id, course_id |-> NoId,
                       amount |-> amount,
                       payment_method |-> payment_method,
                       dues_balance |-> users[student_id].dues_balance]]
    /\ UNCHANGED <<generated_reports, clock, users, courses, enrollments,
                   enrollment_seq, payments, penalties, notifications, action_logs,
                   bank_transactions, resp>>

\* the balance written by UPDATE users SET dues_balance = dues_balance - amount
make_payment_commit_relative(w) ==
    LET request == workers[w]
        status == PaymentStatus(request.payment_method)
    IN
    /\ request.pc = "read"
    /\ Len(notifications) < MaxNotifications
    /\ Len(payments) < MaxPayments
    /\ payments' = Append(payments,
           Payment(request.student_id, request.amount, request.payment_method,
                   status, NoValue))
    /\ users' = SetBalance(request.student_id,
           PaidBalance(status, users[request.student_id].dues_balance, request.amount))
    /\ notifications' = Append(notifications,
           Notification(request.student_id,
               IF status = "RECEIVED" THEN "PAYMENT_RECEIVED" ELSE "PAYMENT_SUBMITTED"))
    /\ workers' = [workers EXCEPT ![w] = Idle]
    /\ resp' = Response("pay", 201, "")
    /\ UNCHANGED <<generated_reports, clock, bank_transactions, courses, enrollments,
                   enrollment_seq, penalties, action_logs>>

\* student.dues_balance -= amount on the row object of this session, then
\* db.session.commit(): the unit of work writes the value that Python
\* computed from the balance read, UPDATE users SET dues_balance = <value>.
make_payment_commit(w) ==
    LET request == workers[w]
        status == PaymentStatus(request.payment_method)
    IN
    /\ request.pc = "read"
    /\ Len(notifications) < MaxNotifications
    /\ Len(payments) < MaxPayments
    /\ payments' = Append(payments,
           Payment(request.student_id, request.amount, request.payment_method,
                   status, NoValue))
    /\ users' = IF status = "RECEIVED"
                THEN SetBalance(request.student_id,
                        PaidBalance(status, request.dues_balance, request.amount))
                ELSE users
    /\ notifications' = Append(notifications,
           Notification(request.student_id,
               IF status = "RECEIVED" THEN "PAYMENT_RECEIVED" ELSE "PAYMENT_SUBMITTED"))
    /\ workers' = [workers EXCEPT ![w] = Idle]
    /\ resp' = Response("pay", 201, "")
    /\ UNCHANGED <<generated_reports, clock, bank_transactions, courses, enrollments,
                   enrollment_seq, penalties, action_logs>>

\* ------------------------------------------------------------ require_admin
\* user = User.query.get(identity); if not user or not user.is_admin: 403
IsAdmin(identity) == UserExists(identity) /\ users[identity].is_admin

\* ----------------------------------------------- GET /api/finance/dues
\* User.query.filter(User.dues_balance > 0, User.is_admin is False), then
\* .filter(User.dues_balance >= min_amount), .filter(... <= max_amount):
\* "User.is_admin is False" is Python's identity test of the column object
\* against False, which is False, and a filter on False selects no row.
DuesQuery(min_amount, max_amount) ==
    {u \in DOMAIN users :
        /\ users[u].dues_balance > 0
        /\ FALSE
        /\ min_amount.given => users[u].dues_balance >= min_amount.value
        /\ max_amount.given => users[u].dues_balance <= max_amount.value}

\* order_by(User.username) or order_by(User.dues_balance.desc())
Before(u, v, sort_by) ==
    IF sort_by = "username"
    THEN UsernameRank[u] < UsernameRank[v]
    ELSE \/ users[u].dues_balance > users[v].dues_balance
         \/ users[u].dues_balance = users[v].dues_balance /\ u < v

RECURSIVE Ordered(_, _)
Ordered(ids, sort_by) ==
    IF ids = {} THEN <<>>
    ELSE LET first == CHOOSE u \in ids : \A v \in ids \ {u} : Before(u, v, sort_by)
         IN <<first>> \o Ordered(ids \ {first}, sort_by)

\* total_outstanding += student.dues_balance
RECURSIVE TotalOutstanding(_)
TotalOutstanding(students) ==
    IF students = <<>> THEN 0
    ELSE users[Head(students)].dues_balance + TotalOutstanding(Tail(students))

DuesReport(students) ==
    [total_students_with_dues |-> Len(students),
     total_outstanding_amount |-> TotalOutstanding(students),
     students |-> [i \in DOMAIN students |->
                     [user_id |-> students[i],
                      dues_balance |-> users[students[i]].dues_balance]]]

get_outstanding_dues(admin_id, min_amount, max_amount, sort_by) ==
    /\ IF ~IsAdmin(admin_id)
       THEN resp' = Response("dues", 403, "Admin access required")
       ELSE resp' = BulkResponse("dues", 200, "",
                       <<DuesReport(Ordered(DuesQuery(min_amount, max_amount), sort_by))>>)
    /\ UNCHANGED ledger

\* ---------------------------------------- POST /api/finance/record-payment
\* the amount taken off with no clamp
ClampedBalance_unclamped(balance, amount) == balance - amount

\* student.dues_balance = max(0, student.dues_balance - amount)
ClampedBalance(balance, amount) ==
    IF balance - amount > 0 THEN balance - amount ELSE 0

record_external_payment(admin_id, student_id, amount, payment_method) ==
    /\ IF ~IsAdmin(admin_id)
       THEN /\ resp' = Response("record_payment", 403, "Admin access required")
            /\ UNCHANGED ledger
       ELSE IF amount <= 0
       THEN /\ resp' = Response("record_payment", 400, "Amount must be greater than 0")
            /\ UNCHANGED ledger
       ELSE IF ~UserExists(student_id) \/ users[student_id].is_admin
       THEN /\ resp' = Response("record_payment", 404, "Student not found")
            /\ UNCHANGED ledger
       ELSE /\ Len(notifications) < MaxNotifications
            /\ Len(payments) < MaxPayments
            /\ payments' = Append(payments,
                   Payment(student_id, amount, payment_method, "RECEIVED", admin_id))
            /\ users' = SetBalance(student_id,
                   ClampedBalance(users[student_id].dues_balance, amount))
            /\ action_logs' = Append(action_logs,
                   ActionLog(student_id, "PAYMENT_RECORDED", admin_id))
            /\ notifications' = Append(notifications,
                   Notification(student_id, "PAYMENT_RECEIVED"))
            /\ resp' = Response("record_payment", 201, "")
            /\ UNCHANGED <<generated_reports, clock, workers, bank_transactions, courses, enrollments, enrollment_seq, penalties>>

\* ------------------------------ PUT /api/finance/action/penalty/<student_id>
Penalty(student_id, amount, applied_by) ==
    [student_id |-> student_id, amount |-> amount, applied_by |-> applied_by]

\* only a missing or zero amount refused
InvalidPenaltyAmount_zero_only(penalty_amount) == penalty_amount = 0

\* if not penalty_amount or penalty_amount <= 0
InvalidPenaltyAmount(penalty_amount) == penalty_amount = 0 \/ penalty_amount <= 0

\* a student who owes nothing left without the penalty
PenalizedBalance_dues_only(balance, penalty_amount) ==
    IF balance > 0 THEN balance + penalty_amount ELSE balance

\* student.dues_balance = float(student.dues_balance) + float(penalty_amount)
PenalizedBalance(balance, penalty_amount) == balance + penalty_amount

apply_penalty(admin_id, student_id, penalty_amount) ==
    /\ IF ~IsAdmin(admin_id)
       THEN /\ resp' = Response("penalty", 403, "Admin access required")
            /\ UNCHANGED ledger
       ELSE IF InvalidPenaltyAmount(penalty_amount)
       THEN /\ resp' = Response("penalty", 400, "penalty_amount must be a positive number")
            /\ UNCHANGED ledger
       ELSE IF ~UserExists(student_id) \/ users[student_id].is_admin
       THEN /\ resp' = Response("penalty", 404, "Student not found")
            /\ UNCHANGED ledger
       ELSE /\ Len(notifications) < MaxNotifications
            /\ Len(penalties) < MaxPenalties
            /\ penalties' = Append(penalties,
                   Penalty(student_id, penalty_amount, admin_id))
            /\ users' = SetBalance(student_id,
                   PenalizedBalance(users[student_id].dues_balance, penalty_amount))
            /\ notifications' = Append(notifications,
                   Notification(student_id, "PENALTY_APPLIED"))
            /\ action_logs' = Append(action_logs,
                   ActionLog(student_id, "APPLY_PENALTY", admin_id))
            /\ resp' = Response("penalty", 200, "")
            /\ UNCHANGED <<generated_reports, clock, workers, bank_transactions, courses, enrollments, enrollment_seq, payments>>

\* ------------------------------------------------------- POST /api/courses
\* Course(course_id=..., name=..., credits=..., total_fee=..., description=...)
\* leaves faculty_id unset, and Course.faculty_id is nullable=False: the
\* INSERT is refused at commit and the handler answers 500.
create_course(admin_id, course_code, total_fee) ==
    /\ IF ~IsAdmin(admin_id)
       THEN resp' = Response("create_course", 403, "Admin access required")
       ELSE IF total_fee = 0
       THEN resp' = Response("create_course", 400, "total_fee is required")
       ELSE IF \E c \in DOMAIN courses : courses[c].course_id = course_code
       THEN resp' = Response("create_course", 409, "Course ID already exists")
       ELSE resp' = Response("create_course", 500, "Failed to create course")
    /\ UNCHANGED ledger

\* ---------------------------------------- PUT /api/courses/<int:course_id>
\* if data.get("total_fee"): course.total_fee = float(data.get("total_fee"))
UpdatedFee(old_fee, total_fee) == IF total_fee # 0 THEN total_fee ELSE old_fee

update_course(admin_id, course_id, total_fee) ==
    IF ~IsAdmin(admin_id)
    THEN /\ resp' = Response("update_course", 403, "Admin access required")
         /\ UNCHANGED ledger
    ELSE IF ~CourseExists(course_id)
    THEN /\ resp' = Response("update_course", 404, "Course not found")
         /\ UNCHANGED ledger
    ELSE /\ courses' = [courses EXCEPT ![course_id].total_fee =
                            UpdatedFee(courses[course_id].total_fee, total_fee)]
         /\ resp' = Response("update_course", 200, "")
         /\ UNCHANGED <<generated_reports, clock, workers, bank_transactions, users, enrollments, enrollment_seq, payments, penalties,
                        notifications, action_logs>>

\* ------------------------------------- DELETE /api/courses/<int:course_id>
\* Course.enrollments has cascade='all, delete-orphan': the enrollments of the
\* course go with it.  get_or_404 raises inside the try block, so an unknown id
\* is answered by the except branch, with 500.
RestrictTo(f, S) == [x \in S |-> f[x]]

\* the notifications deleted with the course
delete_course_purging(admin_id, course_id) ==
    /\ IsAdmin(admin_id) /\ CourseExists(course_id)
    /\ courses' = RestrictTo(courses, DOMAIN courses \ {course_id})
    /\ enrollments' = {e \in enrollments : e.course_id # course_id}
    /\ notifications' = <<>>
    /\ resp' = Response("delete_course", 200, "")
    /\ UNCHANGED <<generated_reports, clock, workers, bank_transactions, users, enrollment_seq, payments, penalties,
                   action_logs>>

\* the fee taken off the balance of every student enrolled in the course
delete_course_refunding(admin_id, course_id) ==
    /\ IsAdmin(admin_id) /\ CourseExists(course_id)
    /\ courses' = RestrictTo(courses, DOMAIN courses \ {course_id})
    /\ enrollments' = {e \in enrollments : e.course_id # course_id}
    /\ users' = [u \in DOMAIN users |->
                    IF \E e \in enrollments : e.course_id = course_id /\ e.student_id = u
                    THEN [users[u] EXCEPT !.dues_balance = 0]
                    ELSE users[u]]
    /\ resp' = Response("delete_course", 200, "")
    /\ UNCHANGED <<generated_reports, clock, workers, bank_transactions, enrollment_seq,
                   payments, penalties, notifications, action_logs>>

delete_course(admin_id, course_id) ==
    IF ~IsAdmin(admin_id)
    THEN /\ resp' = Response("delete_course", 403, "Admin access required")
         /\ UNCHANGED ledger
    ELSE IF ~CourseExists(course_id)
    THEN /\ resp' = Response("delete_course", 500, "Failed to delete course")
         /\ UNCHANGED ledger
    ELSE /\ courses' = RestrictTo(courses, DOMAIN courses \ {course_id})
         /\ enrollments' = {e \in enrollments : e.course_id # course_id}
         /\ resp' = Response("delete_course", 200, "")
         /\ UNCHANGED <<generated_reports, clock, workers, bank_transactions, users, enrollment_seq, payments, penalties, notifications,
                        action_logs>>

\* --------------------------- PUT /api/finance/action/block/<student_id>
\* the flag alone set
Blocked_flag_only(user, reason, now) == [user EXCEPT !.is_blocked = TRUE]

\* setattr(student, 'is_blocked', True); ... 'blocked_at', now; ... 'blocked_reason', reason
Blocked(user, reason, now) ==
    [user EXCEPT !.is_blocked = TRUE, !.blocked_at = now, !.blocked_reason = reason]

\* commit_ok: whether db.session.commit() goes through.  A commit that raises
\* is rolled back and answered 500.
block_student(admin_id, student_id, reason, now, commit_ok) ==
    IF ~IsAdmin(admin_id)
    THEN /\ resp' = Response("block", 403, "Admin access required")
         /\ UNCHANGED ledger
    ELSE IF ~UserExists(student_id) \/ users[student_id].is_admin
    THEN /\ resp' = Response("block", 404, "Student not found")
         /\ UNCHANGED ledger
    ELSE IF ~commit_ok
    THEN /\ resp' = Response("block", 500, "Failed to block student")
         /\ UNCHANGED ledger
    ELSE /\ Len(notifications) < MaxNotifications
         /\ users' = [users EXCEPT ![student_id] = Blocked(@, reason, now)]
         /\ notifications' = Append(notifications,
                Notification(student_id, "REGISTRATION_BLOCKED"))
         /\ action_logs' = Append(action_logs,
                ActionLog(student_id, "BLOCK_STUDENT", admin_id))
         /\ resp' = Response("block", 200, "")
         /\ UNCHANGED <<generated_reports, clock, workers, bank_transactions, courses, enrollments, enrollment_seq, payments, penalties>>

\* ------------------------------------------ bulk endpoints: the session
\* What a bulk handler has in its session while it loops over student_ids:
\* the rows it changed or added, not committed yet, and the details list.
Session ==
    [users |-> users, penalties |-> penalties, notifications |-> notifications,
     action_logs |-> action_logs, details |-> <<>>]

Detail(student_id, status) == [student_id |-> student_id, status |-> status]

\* if not student or student.is_admin
NoStudent(session, student_id) ==
    student_id \notin DOMAIN session.users \/ session.users[student_id].is_admin

\* ------------------------------ POST /api/finance/action/bulk-block
\* one pass of the body of "for student_id in student_ids"
BlockOne(session, admin_id, student_id, reason, now) ==
    IF NoStudent(session, student_id)
    THEN [session EXCEPT !.details = Append(@, Detail(student_id, "failed"))]
    ELSE [session EXCEPT
            !.users[student_id] = Blocked(@, reason, now),
            !.notifications = Append(@, Notification(student_id, "REGISTRATION_BLOCKED")),
            !.action_logs = Append(@, ActionLog(student_id, "BULK_BLOCK", admin_id)),
            !.details = Append(@, Detail(student_id, NoValue))]

RECURSIVE BlockAll(_, _, _, _, _)
BlockAll(session, admin_id, student_ids, reason, now) ==
    IF student_ids = <<>> THEN session
    ELSE BlockAll(BlockOne(session, admin_id, Head(student_ids), reason, now),
                  admin_id, Tail(student_ids), reason, now)

bulk_block(admin_id, student_ids, reason, now, commit_ok) ==
    IF ~IsAdmin(admin_id)
    THEN /\ resp' = Response("bulk_block", 403, "Admin access required")
         /\ UNCHANGED ledger
    ELSE IF student_ids = <<>>
    THEN /\ resp' = Response("bulk_block", 400, "student_ids must be a non-empty list")
         /\ UNCHANGED ledger
    ELSE LET session == BlockAll(Session, admin_id, student_ids, reason, now) IN
         IF ~commit_ok
         THEN /\ resp' = Response("bulk_block", 500, "Failed to block bulk registrations")
              /\ UNCHANGED ledger
         ELSE /\ Len(session.notifications) <= MaxNotifications
              /\ users' = session.users
              /\ notifications' = session.notifications
              /\ action_logs' = session.action_logs
              /\ resp' = BulkResponse("bulk_block", 200, "", session.details)
              /\ UNCHANGED <<generated_reports, clock, workers, bank_transactions, courses, enrollments, enrollment_seq, payments,
                             penalties>>

\* ---------------------------- POST /api/finance/action/bulk-penalty
\* the students who owe nothing penalized like the others
NoOutstandingDues_ignored(user) == FALSE

\* if student.dues_balance <= 0: skipped
NoOutstandingDues(user) == user.dues_balance <= 0

PenalizeOne(session, admin_id, student_id, penalty_amount) ==
    IF NoStudent(session, student_id)
    THEN [session EXCEPT !.details = Append(@, Detail(student_id, "failed"))]
    ELSE IF NoOutstandingDues(session.users[student_id])
    THEN [session EXCEPT !.details = Append(@, Detail(student_id, "skipped"))]
    ELSE [session EXCEPT
            !.penalties = Append(@, Penalty(student_id, penalty_amount, admin_id)),
            !.users[student_id].dues_balance = PenalizedBalance(@, penalty_amount),
            !.notifications = Append(@, Notification(student_id, "PENALTY_APPLIED")),
            !.action_logs = Append(@, ActionLog(student_id, "BULK_PENALTY", admin_id)),
            !.details = Append(@, Detail(student_id, NoValue))]

RECURSIVE PenalizeAll(_, _, _, _)
PenalizeAll(session, admin_id, student_ids, penalty_amount) ==
    IF student_ids = <<>> THEN session
    ELSE PenalizeAll(PenalizeOne(session, admin_id, Head(student_ids), penalty_amount),
                     admin_id, Tail(student_ids), penalty_amount)

bulk_penalty(admin_id, student_ids, penalty_amount, commit_ok) ==
    IF ~IsAdmin(admin_id)
    THEN /\ resp' = Response("bulk_penalty", 403, "Admin access required")
         /\ UNCHANGED ledger
    ELSE IF student_ids = <<>>
    THEN /\ resp' = Response("bulk_penalty", 400, "student_ids must be a non-empty list")
         /\ UNCHANGED ledger
    ELSE IF InvalidPenaltyAmount(penalty_amount)
    THEN /\ resp' = Response("bulk_penalty", 400, "penalty_amount must be a positive number")
         /\ UNCHANGED ledger
    ELSE LET session == PenalizeAll(Session, admin_id, student_ids, penalty_amount) IN
         IF ~commit_ok
         THEN /\ resp' = Response("bulk_penalty", 500, "Failed to apply bulk penalties")
              /\ UNCHANGED ledger
         ELSE /\ Len(session.notifications) <= MaxNotifications
              /\ Len(session.penalties) <= MaxPenalties
              /\ users' = session.users
              /\ penalties' = session.penalties
              /\ notifications' = session.notifications
              /\ action_logs' = session.action_logs
              /\ resp' = BulkResponse("bulk_penalty", 200, "", session.details)
              /\ UNCHANGED <<generated_reports, clock, workers, bank_transactions, courses, enrollments, enrollment_seq, payments>>

\* --------------------------- POST /api/finance/action/bulk-reminder
\* User.query.filter(User.is_admin is False, User.dues_balance > 0).all():
\* "User.is_admin is False" is Python's identity test of the column object
\* against False, which is False, and a filter on False selects no row.
AllUnpaid == <<>>

RemindOne(session, admin_id, student_id) ==
    IF NoStudent(session, student_id)
    THEN [session EXCEPT !.details = Append(@, Detail(student_id, "failed"))]
    ELSE [session EXCEPT
            !.notifications = Append(@, Notification(student_id, "PAYMENT_REMINDER")),
            !.action_logs = Append(@, ActionLog(student_id, "BULK_REMINDER", admin_id)),
            !.details = Append(@, Detail(student_id, "sent"))]

RECURSIVE RemindAll(_, _, _)
RemindAll(session, admin_id, student_ids) ==
    IF student_ids = <<>> THEN session
    ELSE RemindAll(RemindOne(session, admin_id, Head(student_ids)),
                   admin_id, Tail(student_ids))

\* everyone: student_ids is the string "all" and not a list
bulk_reminder(admin_id, everyone, student_ids_input, commit_ok) ==
    IF ~IsAdmin(admin_id)
    THEN /\ resp' = Response("bulk_reminder", 403, "Admin access required")
         /\ UNCHANGED ledger
    ELSE LET student_ids == IF everyone THEN AllUnpaid ELSE student_ids_input IN
         IF student_ids = <<>>
         THEN /\ resp' = Response("bulk_reminder", 400, "No students to send reminders to")
              /\ UNCHANGED ledger
         ELSE LET session == RemindAll(Session, admin_id, student_ids) IN
              IF ~commit_ok
              THEN /\ resp' = Response("bulk_reminder", 500, "Failed to save reminders")
                   /\ UNCHANGED ledger
              ELSE /\ Len(session.notifications) <= MaxNotifications
                   /\ notifications' = session.notifications
                   /\ action_logs' = session.action_logs
                   /\ resp' = BulkResponse("bulk_reminder", 200, "", session.details)
                   /\ UNCHANGED <<generated_reports, clock, workers, bank_transactions, users, courses, enrollments, enrollment_seq,
                                  payments, penalties>>

\* ------------------------------------------------ bank_transactions rows
\* BankTransaction(bank_ref=..., amount=..., status='Unmatched')
BankTransaction(bank_ref, amount, transaction_date) ==
    [bank_ref |-> bank_ref, amount |-> amount,
     transaction_date |-> transaction_date, status |-> "Unmatched",
     matched_payment_id |-> NoId, matched_student_id |-> NoId,
     matched_by |-> NoId, matched_at |-> NoValue]

\* the status set and nothing stamped
Matched_status_only(transaction, payment_id, student_id, matched_by, now) ==
    [transaction EXCEPT !.status = "Matched"]

\* the student left unstamped
Matched_without_student(transaction, payment_id, student_id, matched_by, now) ==
    [transaction EXCEPT !.status = "Matched",
                        !.matched_payment_id = payment_id,
                        !.matched_at = now,
                        !.matched_by = matched_by]

\* transaction.matched_payment_id = ...; ... transaction.matched_by = current_user_id
Matched(transaction, payment_id, student_id, matched_by, now) ==
    [transaction EXCEPT !.status = "Matched",
                        !.matched_payment_id = payment_id,
                        !.matched_student_id = student_id,
                        !.matched_at = now,
                        !.matched_by = matched_by]

\* ----------------------- POST /api/finance/bank-reconciliation/sync
\* txn_data.get(key): None for a key the entry does not have
Get(value) == IF value = "absent" THEN NoValue ELSE value

\* txn_data.get('amount', 0)
GetAmount(value) == IF value = "absent" THEN "0" ELSE value

\* float(x) raises TypeError for None
FloatRaises(value) == value = NoValue
Float(value) == CASE value = "0" -> 0 [] value = "1" -> 1 [] value = "2" -> 2

\* datetime.strptime(date_str, '%Y-%m-%d').replace(tzinfo=timezone.utc)
Parses(date_str) ==
    date_str \in {"2025-12-03", "2025-12-04"}
Strptime(date_str) ==
    CASE date_str = "2025-12-03" -> 2 * MinutesPerDay
      [] date_str = "2025-12-04" -> 3 * MinutesPerDay

\* try: strptime ... except Exception: transaction_date = datetime.now(timezone.utc)
TransactionDate(date_str, now) ==
    IF Parses(date_str) THEN Strptime(date_str) ELSE Instant(now)

\* the rows added by this request not seen
Existing_committed(rows, bank_ref) ==
    \E i \in DOMAIN bank_transactions : bank_transactions[i].bank_ref = bank_ref

\* BankTransaction.query.filter_by(bank_ref=bank_ref).first(), which sees
\* the rows this request has added to the session (autoflush)
Existing(rows, bank_ref) == \E i \in DOMAIN rows : rows[i].bank_ref = bank_ref

\* the dates not compared
Candidates_amount_only(amount, transaction_date) ==
    {i \in DOMAIN payments : payments[i].amount = amount}

\* Payment.query.filter(Payment.amount == amount,
\*     Payment.payment_date >= transaction_date - timedelta(days=7),
\*     Payment.payment_date <= transaction_date + timedelta(days=7))
Candidates(amount, transaction_date) ==
    {i \in DOMAIN payments :
        /\ payments[i].amount = amount
        /\ payments[i].payment_date >= transaction_date - Week
        /\ payments[i].payment_date <= transaction_date + Week}

\* .first() of a query without ORDER BY
First(ids, row_order) ==
    IF row_order = "ascending"
    THEN CHOOSE i \in ids : \A j \in ids : i <= j
    ELSE CHOOSE i \in ids : \A j \in ids : i >= j

\* imported_count = 0; auto_matched = 0; unmatched = 0; duplicates_skipped = 0
Counts(imported_count, auto_matched, unmatched, duplicates_skipped) ==
    [imported_count |-> imported_count, auto_matched |-> auto_matched,
     unmatched |-> unmatched, duplicates_skipped |-> duplicates_skipped]

\* What the handler has while it loops over transactions_data: the rows of
\* the table with those it added, its counters, and whether an entry raised.
SyncSession ==
    [bank_transactions |-> bank_transactions, counts |-> Counts(0, 0, 0, 0),
     raised |-> FALSE]

\* one pass of the body of "for txn_data in transactions_data"
SyncOne(session, admin_id, txn_data, now, row_order) ==
    LET bank_ref == Get(txn_data.bank_re)
        date_str == Get(txn_data.date)
    IN
    IF session.raised THEN session
    ELSE IF FloatRaises(GetAmount(txn_data.amount))
    THEN [session EXCEPT !.raised = TRUE]
    ELSE LET amount == Float(GetAmount(txn_data.amount)) IN
    IF bank_ref = NoValue \/ amount = 0 \/ date_str = NoValue
    THEN session
    ELSE IF Existing(session.bank_transactions, bank_ref)
    THEN [session EXCEPT !.counts.duplicates_skipped = @ + 1]
    ELSE LET transaction_date == TransactionDate(date_str, now)
             bank_txn == BankTransaction(bank_ref, amount, transaction_date)
             found == Candidates(amount, transaction_date)
         IN
         IF found # {}
         THEN LET payment_id == First(found, row_order) IN
              [session EXCEPT
                 !.bank_transactions = Append(@,
                     Matched(bank_txn, payment_id, payments[payment_id].student_id,
                             admin_id, now)),
                 !.counts.auto_matched = @ + 1,
                 !.counts.imported_count = @ + 1]
         ELSE [session EXCEPT
                 !.bank_transactions = Append(@, bank_txn),
                 !.counts.unmatched = @ + 1,
                 !.counts.imported_count = @ + 1]

RECURSIVE SyncAll(_, _, _, _, _)
SyncAll(session, admin_id, transactions_data, now, row_order) ==
    IF transactions_data = <<>> THEN session
    ELSE SyncAll(SyncOne(session, admin_id, Head(transactions_data), now, row_order),
                 admin_id, Tail(transactions_data), now, row_order)

sync_bank_data(admin_id, source, transactions_data, now, row_order) ==
    IF ~IsAdmin(admin_id)
    THEN /\ resp' = Response("sync", 403, "Admin access required")
         /\ UNCHANGED ledger
    ELSE IF source = "manual" /\ transactions_data = <<>>
    THEN /\ resp' = Response("sync", 400, "No transactions provided")
         /\ UNCHANGED ledger
    ELSE IF source = "file"
    THEN /\ resp' = Response("sync", 501, "CSV file upload not yet implemented")
         /\ UNCHANGED ledger
    ELSE LET session == IF source = "manual"
                        THEN SyncAll(SyncSession, admin_id, transactions_data,
                                     now, row_order)
                        ELSE SyncSession
         IN
         IF session.raised
         THEN /\ resp' = Response("sync", 500, "Failed to sync bank data")
              /\ UNCHANGED ledger
         ELSE /\ bank_transactions' = session.bank_transactions
              /\ resp' = BulkResponse("sync", 200, "", <<session.counts>>)
              /\ UNCHANGED <<generated_reports, clock, workers, users, courses, enrollments, enrollment_seq, payments,
                             penalties, notifications, action_logs>>

\* ------------- PUT /api/finance/bank-reconciliation/<transaction_id>/match
\* the amount taken off with no clamp
ReconciledBalance_unclamped(balance, amount) == balance - amount

\* student.dues_balance = max(0, student.dues_balance - transaction.amount)
ReconciledBalance(balance, amount) ==
    IF balance - amount > 0 THEN balance - amount ELSE 0

match_bank_transaction(admin_id, transaction_id, mode, payment_id, student_id, now) ==
    IF ~IsAdmin(admin_id)
    THEN /\ resp' = Response("match", 403, "Admin access required")
         /\ UNCHANGED ledger
    ELSE IF transaction_id \notin DOMAIN bank_transactions
    THEN /\ resp' = Response("match", 404, "Transaction not found")
         /\ UNCHANGED ledger
    ELSE IF mode = "payment_id"
    THEN IF payment_id \notin DOMAIN payments
         THEN /\ resp' = Response("match", 404, "Payment not found")
              /\ UNCHANGED ledger
         ELSE /\ bank_transactions' =
                    [bank_transactions EXCEPT ![transaction_id] =
                        Matched(@, payment_id, payments[payment_id].student_id,
                                admin_id, now)]
              /\ resp' = Response("match", 200, "")
              /\ UNCHANGED <<generated_reports, clock, workers, users, courses, enrollments, enrollment_seq, payments,
                             penalties, notifications, action_logs>>
    ELSE IF mode = "create_payment"
    THEN IF ~UserExists(student_id)
         THEN /\ resp' = Response("match", 404, "Student not found")
              /\ UNCHANGED ledger
         ELSE LET amount == bank_transactions[transaction_id].amount IN
              /\ Len(payments) < MaxPayments
              /\ payments' = Append(payments,
                     [Payment(student_id, amount, "BANK_TRANSFER", "RECEIVED", admin_id)
                         EXCEPT !.payment_date =
                            bank_transactions[transaction_id].transaction_date])
              /\ users' = SetBalance(student_id,
                     ReconciledBalance(users[student_id].dues_balance, amount))
              /\ bank_transactions' =
                    [bank_transactions EXCEPT ![transaction_id] =
                        Matched(@, Len(payments) + 1, student_id, admin_id, now)]
              /\ resp' = Response("match", 200, "")
              /\ UNCHANGED <<generated_reports, clock, workers, courses, enrollments, enrollment_seq, penalties,
                             notifications, action_logs>>
    ELSE /\ resp' = Response("match", 400, "Invalid request")
         /\ UNCHANGED ledger

\* ------ GET /api/finance/bank-reconciliation/suggestions/<transaction_id>
\* User.query.filter(User.dues_balance > 0, User.is_admin is False).all():
\* "User.is_admin is False" is Python's identity test of the column object
\* against False, which is False, and a filter on False selects no row.
StudentsWithDues == <<>>

Suggestion(type, id, match_confidence) ==
    [type |-> type, id |-> id, match_confidence |-> match_confidence]

Abs(x) == IF x < 0 THEN -x ELSE x

\* the body of "for student in students_with_dues", for a transaction of a
\* positive amount: abs(dues_balance - amount) < 0.01, or
\* abs(dues_balance - amount) / amount <= 0.1
SuggestStudent(student_id, amount) ==
    IF users[student_id].dues_balance = amount
    THEN <<Suggestion("student", student_id, "HIGH")>>
    ELSE IF 10 * Abs(users[student_id].dues_balance - amount) <= amount
    THEN <<Suggestion("student", student_id, "MEDIUM")>>
    ELSE <<>>

RECURSIVE SuggestStudents(_, _)
SuggestStudents(students, amount) ==
    IF students = <<>> THEN <<>>
    ELSE SuggestStudent(Head(students), amount) \o SuggestStudents(Tail(students), amount)

\* Payment.query.filter(Payment.amount == transaction.amount,
\*     Payment.payment_date >= date_range_start,
\*     Payment.payment_date <= date_range_end,
\*     Payment.status == 'RECEIVED').all(), then "if student" for each
RECURSIVE SuggestPayments(_, _)
SuggestPayments(n, transaction) ==
    IF n = 0 THEN <<>>
    ELSE SuggestPayments(n - 1, transaction) \o
         (IF /\ payments[n].amount = transaction.amount
             /\ payments[n].payment_date >= transaction.transaction_date - Week
             /\ payments[n].payment_date <= transaction.transaction_date + Week
             /\ payments[n].status = "RECEIVED"
             /\ UserExists(payments[n].student_id)
          THEN <<Suggestion("payment", n, "HIGH")>>
          ELSE <<>>)

\* confidence_order = {'HIGH': 1, 'MEDIUM': 2, 'LOW': 3}; list.sort is stable
SortedByConfidence(suggestions) ==
    SelectSeq(suggestions, LAMBDA x : x.match_confidence = "HIGH")
       \o SelectSeq(suggestions, LAMBDA x : x.match_confidence = "MEDIUM")
       \o SelectSeq(suggestions, LAMBDA x : x.match_confidence \notin {"HIGH", "MEDIUM"})

\* suggestions[:10]
Top == 10
Limited(suggestions) ==
    SubSeq(suggestions, 1, IF Len(suggestions) < Top THEN Len(suggestions) ELSE Top)

get_matching_suggestions(admin_id, transaction_id) ==
    /\ IF ~IsAdmin(admin_id)
       THEN resp' = Response("suggestions", 403, "Admin access required")
       ELSE IF transaction_id \notin DOMAIN bank_transactions
       THEN resp' = Response("suggestions", 404, "Transaction not found")
       ELSE LET transaction == bank_transactions[transaction_id]
                suggestions == SuggestStudents(StudentsWithDues, transaction.amount)
                                  \o SuggestPayments(Len(payments), transaction)
            IN resp' = BulkResponse("suggestions", 200, "",
                                    Limited(SortedByConfidence(suggestions)))
    /\ UNCHANGED ledger

\* ------------------------------------ POST /api/finance/reports/generate
\* f"RPT-{year}-{report_count:03d}", and int(rpt.id.split('-')[-1]) that reads
\* the number back: the digits of a number written with at least 3 digits
\* are read as that number
ReportId(year, report_count) == [year |-> year, number |-> report_count]

\* GeneratedReport.query.filter(GeneratedReport.id.like(f'RPT-{year}-%')).all()
\* and the numbers read from the ids
ExistingNumbers(year) == {r.id.number : r \in {x \in generated_reports : x.id.year = year}}

Largest(numbers) == CHOOSE n \in numbers : \A m \in numbers : m <= n

\* the number of stored reports of the year plus one
ReportCount_counted(year) == Cardinality(ExistingNumbers(year)) + 1

\* (max(existing_numbers) + 1) if existing_numbers else 1
ReportCount(year) ==
    IF ExistingNumbers(year) # {} THEN Largest(ExistingNumbers(year)) + 1 ELSE 1

\* sum(p.amount for p in Payment.query.filter(Payment.status == 'RECEIVED'))
RECURSIVE TotalCollected(_)
TotalCollected(n) ==
    IF n = 0 THEN 0
    ELSE TotalCollected(n - 1)
         + (IF payments[n].status = "RECEIVED" THEN payments[n].amount ELSE 0)

\* _generate_finance_overview_report, _generate_university_level_report: the
\* total_collected of the summary
Summary(report_type) ==
    IF report_type = "finance_overview" THEN TotalCollected(Len(payments)) ELSE 0

\* what a DateTime column gives back when the row is loaded: the value
\* without its tzinfo
Column(datetime) == [datetime EXCEPT !.tzinfo = FALSE]

GeneratedReport(id, report_type, summary, generated_by) ==
    [id |-> id, report_type |-> report_type, summary |-> summary,
     generated_by |-> generated_by,
     generated_at |-> Column(Now),
     expires_at |-> Column([Now EXCEPT !.days = @ + Retention])]

\* the report id and the summary of the JSON body
ReportResponse(op, status, error, report_id, summary) ==
    BulkResponse(op, status, error, <<[report_id |-> report_id, summary |-> summary]>>)

generate_report(admin_id, report_type) ==
    LET report_id == ReportId(Year(Now.days), ReportCount(Year(Now.days))) IN
    /\ IF ~IsAdmin(admin_id)
       THEN /\ resp' = Response("generate_report", 403, "Admin access required")
            /\ UNCHANGED ledger
       ELSE IF report_type = NoValue
       THEN /\ resp' = Response("generate_report", 500, "Failed to generate report")
            /\ UNCHANGED ledger
       ELSE IF report_type \notin {"finance_overview", "university_level"}
       THEN /\ resp' = Response("generate_report", 400, "Unknown report type")
            /\ UNCHANGED ledger
       ELSE /\ Cardinality(generated_reports) < MaxReports
            /\ generated_reports' = generated_reports \cup
                   {GeneratedReport(report_id, report_type, Summary(report_type),
                                    admin_id)}
            /\ resp' = ReportResponse("generate_report", 200, "", report_id,
                                      Summary(report_type))
            /\ UNCHANGED <<users, courses, enrollments, enrollment_seq, payments,
                           penalties, notifications, action_logs, bank_transactions,
                           clock, workers>>

\* ------------------------- GET /api/finance/reports/download/<report_id>
\* GeneratedReport.query.get(report_id)
ReportsWithId(report_id) == {r \in generated_reports : r.id = report_id}

\* a < b on two datetimes raises TypeError when only one of them has a tzinfo
LessRaises(a, b) == a.tzinfo # b.tzinfo

download_report(admin_id, report_id, format_type) ==
    /\ IF ~IsAdmin(admin_id)
       THEN resp' = Response("download_report", 403, "Admin access required")
       ELSE IF ReportsWithId(report_id) = {}
       THEN resp' = Response("download_report", 404, "Report not found")
       ELSE LET report == CHOOSE r \in ReportsWithId(report_id) : TRUE IN
            IF LessRaises(report.expires_at, Now)
            THEN resp' = Response("download_report", 500, "Failed to download report")
            ELSE IF report.expires_at.days < Now.days
            THEN resp' = Response("download_report", 410, "Report has expired")
            ELSE IF format_type \notin {"json", "pd", "excel"}
            THEN resp' = Response("download_report", 400, "Unsupported format")
            ELSE resp' = ReportResponse("download_report", 200, "", report.id,
                                        report.summary)
    /\ UNCHANGED ledger

\* --------------------------------- DELETE /api/finance/reports/<report_id>
delete_report(admin_id, report_id) ==
    /\ IF ~IsAdmin(admin_id)
       THEN /\ resp' = Response("delete_report", 403, "Admin access required")
            /\ UNCHANGED ledger
       ELSE IF ReportsWithId(report_id) = {}
       THEN /\ resp' = Response("delete_report", 404, "Report not found")
            /\ UNCHANGED ledger
       ELSE /\ generated_reports' = generated_reports \ ReportsWithId(report_id)
            /\ resp' = Response("delete_report", 200, "")
            /\ UNCHANGED <<users, courses, enrollments, enrollment_seq, payments,
                           penalties, notifications, action_logs, bank_transactions,
                           clock, workers>>

\* the time that passes between two requests
pass_time(days) ==
    /\ clock + days <= MaxClock
    /\ clock' = clock + days
    /\ UNCHANGED <<users, courses, enrollments, enrollment_seq, payments, penalties,
                   notifications, action_logs, bank_transactions, generated_reports,
                   workers, resp>>

\* ------------------------------------------- a commit that raises
\* db.session.rollback(): the rows of a table are those of the last commit
RolledBack(rows) == rows

\* except Exception as e: db.session.rollback(); return jsonify({"error": ...}), 500
\* The handler got as far as db.session.commit(), which raised: Handled is
\* the handler's run to a successful answer, which it was about to give.
Raised(Handled, op, error) ==
    /\ ENABLED Handled
    /\ resp' = Response(op, 500, error)
    /\ users' = RolledBack(users)
    /\ courses' = RolledBack(courses)
    /\ enrollments' = RolledBack(enrollments)
    /\ enrollment_seq' = RolledBack(enrollment_seq)
    /\ payments' = RolledBack(payments)
    /\ penalties' = RolledBack(penalties)
    /\ notifications' = RolledBack(notifications)
    /\ action_logs' = RolledBack(action_logs)
    /\ bank_transactions' = RolledBack(bank_transactions)
    /\ generated_reports' = RolledBack(generated_reports)
    /\ UNCHANGED <<workers, clock>>

enroll_course_except(student_id, course_id) ==
    Raised(enroll_course(student_id, course_id) /\ resp'.status = 201,
           "enroll", "Enrollment failed")

drop_course_except(student_id, course_id) ==
    Raised(drop_course(student_id, course_id) /\ resp'.status = 200,
           "drop", "Failed to drop course")

make_payment_except(student_id, amount, payment_method, proof) ==
    Raised(make_payment(student_id, amount, payment_method, proof) /\ resp'.status = 201,
           "pay", "Failed to process payment")

record_external_payment_except(admin_id, student_id, amount, payment_method) ==
    Raised(record_external_payment(admin_id, student_id, amount, payment_method)
              /\ resp'.status = 201,
           "record_payment", "Failed to record payment")

\* the raised balance flushed and never rolled back
apply_penalty_except_flushed(admin_id, student_id, penalty_amount) ==
    /\ ENABLED (apply_penalty(admin_id, student_id, penalty_amount) /\ resp'.status = 200)
    /\ resp' = Response("penalty", 500, "Failed to apply penalty")
    /\ users' = SetBalance(student_id,
           PenalizedBalance(users[student_id].dues_balance, penalty_amount))
    /\ UNCHANGED <<generated_reports, clock, workers, courses, enrollments, enrollment_seq, payments, penalties,
                   notifications, action_logs, bank_transactions>>

apply_penalty_except(admin_id, student_id, penalty_amount) ==
    Raised(apply_penalty(admin_id, student_id, penalty_amount) /\ resp'.status = 200,
           "penalty", "Failed to apply penalty")

match_bank_transaction_except(admin_id, transaction_id, mode, payment_id, student_id, now) ==
    Raised(match_bank_transaction(admin_id, transaction_id, mode, payment_id,
                                  student_id, now) /\ resp'.status = 200,
           "match", "Failed to match transaction")

\* The ledger: the student endpoints, the admin's payment and penalty
\* endpoints, and the change of a course's fee.
Next ==
    \/ \E s \in Students, c \in CourseIdInputs : enroll_course(s, c)
    \/ \E s \in Students, c \in CourseIdInputs : drop_course(s, c)
    \/ \E s \in Students, a \in AmountInputs, m \in PaymentMethods,
          p \in ProofInputs : make_payment(s, a, m, p)
    \/ \E a \in Callers, s \in Targets, x \in AmountInputs,
          m \in PaymentMethods : record_external_payment(a, s, x, m)
    \/ \E a \in Callers, s \in Targets, x \in AmountInputs :
          apply_penalty(a, s, x)
    \/ \E a \in Callers, c \in CourseIdInputs, f \in FeeInputs :
          update_course(a, c, f)

Spec == Init /\ [][Next]_vars

\* The ledger operations alone, the fees of the courses left as they are.
NextLedger ==
    \/ \E s \in Students, c \in CourseIdInputs : enroll_course(s, c)
    \/ \E s \in Students, c \in CourseIdInputs : drop_course(s, c)
    \/ \E s \in Students, a \in AmountInputs, m \in PaymentMethods,
          p \in ProofInputs : make_payment(s, a, m, p)
    \/ \E a \in Callers, s \in Targets, x \in AmountInputs,
          m \in PaymentMethods : record_external_payment(a, s, x, m)
    \/ \E a \in Callers, s \in Targets, x \in AmountInputs :
          apply_penalty(a, s, x)

SpecLedger == Init /\ [][NextLedger]_vars

\* The course catalogue: enrolling and dropping while courses are created,
\* changed and deleted.
NextCatalogue ==
    \/ \E s \in Students, c \in CourseIdInputs : enroll_course(s, c)
    \/ \E s \in Students, c \in CourseIdInputs : drop_course(s, c)
    \/ \E a \in Callers, k \in {"CS101", "BI101"}, f \in FeeInputs :
          create_course(a, k, f)
    \/ \E a \in Callers, c \in CourseIdInputs, f \in FeeInputs :
          update_course(a, c, f)
    \/ \E a \in Callers, c \in CourseIdInputs : delete_course(a, c)

SpecCatalogue == Init /\ [][NextCatalogue]_vars

\* The database with the users as register() and register_admin() create
\* them, dues_balance 0 and no enrollment, and the seeded courses.
InitRegistered ==
    /\ users = [u \in UserIds |-> User(u \in AdminIds, 0)]
    /\ courses = [c \in CourseIds |-> [course_id |-> CourseCode[c], total_fee |-> c]]
    /\ enrollments = {}
    /\ enrollment_seq = 0
    /\ payments = <<>>
    /\ penalties = <<>>
    /\ notifications = <<>>
    /\ action_logs = <<>>
    /\ bank_transactions = <<>>
    /\ generated_reports = {}
    /\ clock = 0
    /\ workers = [w \in WorkerIds |-> Idle]
    /\ resp = Response("none", 0, "")

\* Newly registered students enrolling and being charged and paying, while
\* the fees of the courses change.
NextRegistered ==
    \/ \E s \in Students, c \in CourseIdInputs : enroll_course(s, c)
    \/ \E s \in Students, a \in AmountInputs, m \in PaymentMethods,
          p \in ProofInputs : make_payment(s, a, m, p)
    \/ \E a \in Callers, s \in Targets, x \in AmountInputs,
          m \in PaymentMethods : record_external_payment(a, s, x, m)
    \/ \E a \in Callers, s \in Targets, x \in AmountInputs :
          apply_penalty(a, s, x)
    \/ \E a \in Callers, c \in CourseIdInputs, f \in FeeInputs :
          update_course(a, c, f)

SpecRegistered == InitRegistered /\ [][NextRegistered]_vars

\* The admin's actions on students, one by one and in bulk, with students
\* dropping courses in between.
NextActions ==
    \/ \E s \in Students, c \in CourseIdInputs : drop_course(s, c)
    \/ \E a \in Callers, s \in Targets, r \in ReasonInputs, t \in Timestamps,
          ok \in BOOLEAN : block_student(a, s, r, t, ok)
    \/ \E a \in Callers, l \in StudentIdLists, r \in ReasonInputs,
          t \in Timestamps, ok \in BOOLEAN : bulk_block(a, l, r, t, ok)
    \/ \E a \in Callers, l \in StudentIdLists, x \in AmountInputs,
          ok \in BOOLEAN : bulk_penalty(a, l, x, ok)
    \/ \E a \in Callers, e \in BOOLEAN, l \in StudentIdLists,
          ok \in BOOLEAN : bulk_reminder(a, e, l, ok)

SpecActions == Init /\ [][NextActions]_vars

\* The same, with requests that keep coming: some request is always served
\* in the end.
SpecActionsFair == SpecActions /\ WF_vars(NextActions)

\* Penalties in bulk, with students dropping courses in between.
NextBulkPenalty ==
    \/ \E s \in Students, c \in CourseIdInputs : drop_course(s, c)
    \/ \E a \in Callers, l \in StudentIdLists, x \in AmountInputs,
          ok \in BOOLEAN : bulk_penalty(a, l, x, ok)

SpecBulkPenalty == Init /\ [][NextBulkPenalty]_vars

\* The seeded database after an import of one bank transaction that no
\* payment matched.
InitReconcile ==
    /\ users = [u \in UserIds |->
                   User(u \in AdminIds, IF u \in StudentIds THEN u ELSE 0)]
    /\ courses = [c \in CourseIds |-> [course_id |-> CourseCode[c], total_fee |-> c]]
    /\ enrollments = {Enrollment(s, s, s, s) : s \in StudentIds}
    /\ enrollment_seq = Cardinality(StudentIds)
    /\ payments = <<>>
    /\ penalties = <<>>
    /\ notifications = <<>>
    /\ action_logs = <<>>
    /\ bank_transactions = <<BankTransaction("TXN-1", 1, Strptime("2025-12-04"))>>
    /\ generated_reports = {}
    /\ clock = 0
    /\ workers = [w \in WorkerIds |-> Idle]
    /\ resp = Response("none", 0, "")

\* The ledger operations and the matching of bank transactions on the
\* account of one student, each with the run in which its commit raises.
Payer == 1
Cashier == 3
Owed == {a \in AmountInputs : a > 0}
NextCommit ==
    \/ \E c \in CourseIds :
          enroll_course(Payer, c) \/ enroll_course_except(Payer, c)
    \/ \E c \in CourseIds :
          drop_course(Payer, c) \/ drop_course_except(Payer, c)
    \/ \E a \in Owed, m \in PaymentMethods, p \in ProofInputs :
          make_payment(Payer, a, m, p) \/ make_payment_except(Payer, a, m, p)
    \/ \E x \in Owed, m \in PaymentMethods :
          record_external_payment(Cashier, Payer, x, m)
             \/ record_external_payment_except(Cashier, Payer, x, m)
    \/ \E x \in Owed :
          apply_penalty(Cashier, Payer, x) \/ apply_penalty_except(Cashier, Payer, x)
    \/ \E t \in TransactionIdInputs, m \in MatchModes, p \in PaymentIdInputs,
          now \in Timestamps :
          match_bank_transaction(Cashier, t, m, p, Payer, now)
             \/ match_bank_transaction_except(Cashier, t, m, p, Payer, now)

SpecCommit == InitReconcile /\ [][NextCommit]_vars

\* The matching of the imported transaction by an admin, to a payment that
\* the student made or to one that the match creates for a user.
NextMatch ==
    \/ \E a \in Owed, m \in PaymentMethods : make_payment(Payer, a, m, "none")
    \/ \E x \in Owed : apply_penalty(Cashier, Payer, x)
    \/ \E a \in Callers, t \in TransactionIdInputs, m \in MatchModes,
          p \in PaymentIdInputs, s \in Targets, now \in Timestamps :
          match_bank_transaction(a, t, m, p, s, now)

SpecMatch == InitReconcile /\ [][NextMatch]_vars

\* The suggestions for the imported transaction, while the student pays and
\* is charged penalties.
NextSuggest ==
    \/ \E a \in Owed, m \in PaymentMethods : make_payment(Payer, a, m, "none")
    \/ \E x \in Owed : apply_penalty(Cashier, Payer, x)
    \/ \E a \in Callers, t \in TransactionIdInputs : get_matching_suggestions(a, t)

SpecSuggest == InitReconcile /\ [][NextSuggest]_vars

\* Every operation that writes a Notification or an ActionLog row, with the
\* operations that delete rows of other tables, on the account of one
\* student.
PayerLists == {l \in StudentIdLists : \A i \in DOMAIN l : l[i] \in {Payer, 4}}
NextAudit ==
    \/ \E c \in CourseIds : enroll_course(Payer, c)
    \/ \E c \in CourseIds : drop_course(Payer, c)
    \/ \E a \in Owed : make_payment(Payer, a, "MANUAL", "none")
    \/ \E x \in Owed : record_external_payment(Cashier, Payer, x, "MANUAL")
    \/ \E x \in Owed : apply_penalty(Cashier, Payer, x)
    \/ \E r \in ReasonInputs, t \in Timestamps, ok \in BOOLEAN :
          block_student(Cashier, Payer, r, t, ok)
    \/ \E l \in PayerLists, r \in ReasonInputs, t \in Timestamps,
          ok \in BOOLEAN : bulk_block(Cashier, l, r, t, ok)
    \/ \E l \in PayerLists, x \in Owed, ok \in BOOLEAN :
          bulk_penalty(Cashier, l, x, ok)
    \/ \E l \in PayerLists, ok \in BOOLEAN :
          bulk_reminder(Cashier, FALSE, l, ok)
    \/ \E c \in CourseIds : delete_course(Cashier, c)

SpecAudit == Init /\ [][NextAudit]_vars

\* The operations that change a balance, requested by any user with a token
\* and, where they name a student, naming any user.
NextAnyUser ==
    \/ \E u \in UserIds, c \in CourseIds : enroll_course(u, c)
    \/ \E x \in Owed : record_external_payment(Cashier, Cashier, x, "MANUAL")
    \/ \E s \in Targets, x \in Owed : apply_penalty(Cashier, s, x)
    \/ \E t \in TransactionIdInputs, s \in Targets, now \in Timestamps :
          match_bank_transaction(Cashier, t, "create_payment", 1, s, now)

SpecAnyUser == InitReconcile /\ [][NextAnyUser]_vars

\* The payments a student submits and the bank transactions that are
\* matched to them, by the import and by an admin.
NextPending ==
    \/ \E a \in Owed, m \in PaymentMethods : make_payment(Payer, a, m, "none")
    \/ \E l \in {x \in TransactionLists : Len(x) = 1}, now \in Timestamps, o \in RowOrders :
          sync_bank_data(Cashier, "manual", l, now, o)
    \/ \E t \in TransactionIdInputs, p \in PaymentIdInputs, now \in Timestamps :
          match_bank_transaction(Cashier, t, "payment_id", p, Payer, now)
    \/ \E t \in TransactionIdInputs, now \in Timestamps :
          match_bank_transaction(Cashier, t, "create_payment", NoId, Payer, now)

SpecPending == Init /\ [][NextPending]_vars

\* A student who enrolls, drops and pays, and is blocked by an admin at some
\* point.
NextBlocked ==
    \/ \E c \in CourseIdInputs : enroll_course(Payer, c)
    \/ \E c \in CourseIdInputs : drop_course(Payer, c)
    \/ \E a \in AmountInputs, m \in PaymentMethods : make_payment(Payer, a, m, "none")
    \/ \E r \in ReasonInputs, t \in Timestamps :
          block_student(Cashier, Payer, r, t, TRUE)

SpecBlocked == Init /\ [][NextBlocked]_vars

\* Two workers that serve the /enroll requests of the students, each
\* student with one course left to enroll in.
NextEnrollRace ==
    \/ \E w \in WorkerIds, pair \in {<<1, 2>>, <<2, 1>>, <<1, 1>>, <<4, 1>>, <<1, 3>>} : enroll_course_read(w, pair[1], pair[2])
    \/ \E w \in WorkerIds : enroll_course_commit(w)

SpecEnrollRace == Init /\ [][NextEnrollRace]_vars

\* The report requests of the admin over the days, with the payments that
\* change what a report sums up.
ReportIdInputs == {ReportId(y, n) : y \in {2025, 2026}, n \in 1 .. 2}
NextReports ==
    \/ \E a \in Callers, t \in ReportTypeInputs : generate_report(a, t)
    \/ \E a \in Callers, i \in ReportIdInputs, f \in {"json", "csv"} :
          download_report(a, i, f)
    \/ \E i \in ReportIdInputs : delete_report(Cashier, i)
    \/ \E days \in {15} : pass_time(days)
    \/ record_external_payment(Cashier, Payer, 1, "MANUAL")

SpecReports == Init /\ [][NextReports]_vars

\* Two workers that serve the /pay requests of the students.
NextRace ==
    \/ \E w \in WorkerIds, s \in StudentIds, a \in Owed, m \in PaymentMethods :
          make_payment_read(w, s, a, m)
    \/ \E w \in WorkerIds : make_payment_commit(w)

SpecRace == Init /\ [][NextRace]_vars

\* The report of the outstanding dues, while students enroll and pay.
NextDues ==
    \/ \E s \in StudentIds, c \in CourseIds : enroll_course(s, c)
    \/ \E s \in StudentIds, a \in Owed : make_payment(s, a, "MANUAL", "none")
    \/ \E a \in Callers, lo \in AmountFilters, hi \in AmountFilters,
          by \in SortInputs : get_outstanding_dues(a, lo, hi, by)

SpecDues == Init /\ [][NextDues]_vars

\* The import of bank transactions by an admin, with the payments of one
\* student that it matches them to.
NextImport ==
    \/ \E x \in Owed : record_external_payment(Cashier, Payer, x, "MANUAL")
    \/ \E l \in TransactionLists, now \in Timestamps, o \in RowOrders :
          sync_bank_data(Cashier, "manual", l, now, o)
    \/ \E src \in {"file", "other"}, now \in Timestamps, o \in RowOrders :
          sync_bank_data(Cashier, src, <<>>, now, o)

SpecImport == Init /\ [][NextImport]_vars

\* ================================================================ claims
\* The error kinds of the handlers' answers.  The handlers answer a duplicate
\* enrollment and a drop after a payment with HTTP 400 and these messages.
NotFound(r) == r.status = 404
Conflict(r) ==
    /\ r.status = 400
    /\ r.error \in {"Already enrolled in this course",
                    "Cannot drop course after payments have been made"}
InvalidArgument(r) ==
    /\ r.status = 400
    /\ r.error \in {"Amount must be a number greater than 0",
                    "Amount must be greater than 0",
                    "penalty_amount must be a positive number",
                    "Payment amount exceeds outstanding dues"}

Max0(x) == IF x > 0 THEN x ELSE 0

RECURSIVE SumFees(_)
SumFees(rows) ==
    IF rows = {} THEN 0
    ELSE LET e == CHOOSE e \in rows : TRUE
         IN e.course_fee + SumFees(rows \ {e})

RECURSIVE SumAmounts(_, _)
\* the sum of rows[i].amount over the positions i of idx
SumAmounts(rows, idx) ==
    IF idx = {} THEN 0
    ELSE LET i == CHOOSE i \in idx : TRUE
         IN rows[i].amount + SumAmounts(rows, idx \ {i})

\* The balance recomputed from the audit trail.
RecomputedBalance(s) ==
    LET fees == SumFees({e \in enrollments : e.student_id = s})
        pens == SumAmounts(penalties,
                    {i \in 1 .. Len(penalties) : penalties[i].student_id = s})
        paid == SumAmounts(payments,
                    {i \in 1 .. Len(payments) :
                        /\ payments[i].student_id = s
                        /\ payments[i].status = "RECEIVED"})
    IN Max0(fees + pens - paid)

\* C1: after any sequence of ledger operations every student's stored
\* dues_balance equals max(0, fees of the student's enrollments + the student's
\* penalties - the student's RECEIVED payments).
C1_BalanceIsRecomputed ==
    \A s \in StudentIds : users[s].dues_balance = RecomputedBalance(s)

\* C2: in every reachable state every user's dues_balance is >= 0.
C2_BalanceNonNegative ==
    \A u \in DOMAIN users : users[u].dues_balance >= 0
\* The rows a table holds beyond those it held before the step.
\* Every handler leaves its name in resp.op, so a step of another handler is
\* no step of the one a property is about; the properties test resp'.op first.
Appended(before, after) == SubSeq(after, Len(before) + 1, Len(after))
LastRow(rows) == rows[Len(rows)]
OthersUnchanged(s) == \A u \in DOMAIN users \ {s} : users'[u] = users[u]

\* C3: a successful Enroll(student, course) creates exactly one Enrollment,
\* whose course_fee is the course's total_fee of that moment, raises the
\* student's dues_balance by exactly that fee, adds exactly one ENROLLMENT
\* notification and one ENROLLMENT action-log entry for the student, and
\* changes no other user's balance.
C3_EnrollSucceeds ==
    [][resp'.op = "enroll" => \A s \in Identities, c \in CourseIdInputs :
          (enroll_course(s, c) /\ resp'.status = 201) =>
             /\ \E e \in enrollments' :
                   /\ enrollments' \ enrollments = {e}
                   /\ enrollments \subseteq enrollments'
                   /\ e.student_id = s /\ e.course_id = c
                   /\ e.course_fee = courses[c].total_fee
             /\ users'[s].dues_balance =
                   users[s].dues_balance + courses[c].total_fee
             /\ OthersUnchanged(s)
             /\ Appended(notifications, notifications') =
                   <<Notification(s, "ENROLLMENT")>>
             /\ Len(Appended(action_logs, action_logs')) = 1
             /\ LastRow(action_logs').student_id = s
             /\ LastRow(action_logs').action_type = "ENROLLMENT"]_vars

\* a student enrolled in a second course, at its fee
C3_Witness ==
    /\ resp = Response("enroll", 201, "")
    /\ \E s \in StudentIds :
          /\ Cardinality({e \in enrollments : e.student_id = s}) = 2
          /\ users[s].dues_balance = 3
          /\ LastRow(notifications) = Notification(s, "ENROLLMENT")

\* C4: Enroll fails with a conflict error when an Enrollment of the (student,
\* course) pair exists, and with not-found when the student or the course does
\* not exist; in each case the balances and the Enrollment, Notification and
\* ActionLog rows are as before.
C4_EnrollRejected ==
    [][resp'.op = "enroll" => \A s \in Identities, c \in CourseIdInputs :
          enroll_course(s, c) =>
             /\ EnrollmentsOf(s, c) # {} =>
                   Conflict(resp') /\ UNCHANGED ledger
             /\ (~UserExists(s) \/ ~CourseExists(c)) =>
                   NotFound(resp') /\ UNCHANGED ledger]_vars

\* a second Enroll of a pair that a request enrolled before
C4_Witness ==
    /\ resp = Response("enroll", 400, "Already enrolled in this course")
    /\ \E i \in 1 .. Len(notifications) :
          notifications[i].notification_type = "ENROLLMENT"

\* C5: an Enrollment's course_fee never changes once the row exists: a change
\* of the course's total_fee leaves every Enrollment row and every balance as
\* it was, and DropCourse takes the enrollment's stored course_fee off the
\* balance, not the course's total_fee of the moment.
C5_FeeSnapshot ==
    [][/\ \A e \in enrollments : \A f \in enrollments' :
             f.id = e.id => f = e
       /\ resp'.op = "update_course" =>
          \A a \in Callers, c \in CourseIdInputs, x \in FeeInputs :
             update_course(a, c, x) => UNCHANGED <<enrollments, users>>
       /\ resp'.op = "drop" => \A s \in Identities, c \in CourseIdInputs :
             (drop_course(s, c) /\ resp'.status = 200) =>
                \E e \in EnrollmentsOf(s, c) :
                   users'[s].dues_balance =
                      Max0(users[s].dues_balance - e.course_fee)]_vars

\* student 1, enrolled in course 1 at fee 1, dropped it after the course's fee
\* had changed to -1: the balance went from 1 to 0, by the stored fee
C5_Witness ==
    /\ resp = Response("drop", 200, "")
    /\ courses[1].total_fee = -1
    /\ users[1].dues_balance = 0
    /\ {e \in enrollments : e.student_id = 1} = {}
    /\ notifications = <<Notification(1, "DROP_COURSE")>>
HasPaymentRow(s) == \E i \in 1 .. Len(payments) : payments[i].student_id = s

\* C6 as stated: every DropCourse by a student who has a Payment row is
\* answered with the conflict error, balances and Enrollment rows unchanged.
C6_AlwaysConflict ==
    [][resp'.op = "drop" => \A s \in Identities, c \in CourseIdInputs :
          (drop_course(s, c) /\ UserExists(s) /\ HasPaymentRow(s)) =>
             Conflict(resp') /\ UNCHANGED <<users, enrollments>>]_vars

\* C6: DropCourse by a student who has a Payment row, of whatever status, is
\* rejected, and the balances and the Enrollment rows are as before; the
\* rejection is the conflict error when the student is enrolled in the course,
\* and not-found when the student has no enrollment in it.
C6_DropAfterPaymentRejected ==
    [][resp'.op = "drop" => \A s \in Identities, c \in CourseIdInputs :
          (drop_course(s, c) /\ UserExists(s) /\ HasPaymentRow(s)) =>
             /\ resp'.status >= 400
             /\ UNCHANGED <<users, enrollments>>
             /\ EnrollmentsOf(s, c) # {} => Conflict(resp')
             /\ EnrollmentsOf(s, c) = {} => NotFound(resp')]_vars

\* a drop refused to a student whose only payment is PENDING
C6_Witness ==
    /\ resp = Response("drop", 400,
                       "Cannot drop course after payments have been made")
    /\ \E s \in StudentIds :
          /\ HasPaymentRow(s)
          /\ \A i \in 1 .. Len(payments) :
                payments[i].student_id = s => payments[i].status = "PENDING"

\* C7: a successful DropCourse(student, course) sets the student's balance to
\* max(0, old balance - the enrollment's course_fee), deletes that Enrollment
\* and adds one notification for the student; with no enrollment of the
\* student in the course it fails with not-found and changes nothing.
C7_DropSucceeds ==
    [][resp'.op = "drop" => \A s \in Identities, c \in CourseIdInputs :
          drop_course(s, c) =>
             /\ resp'.status = 200 =>
                   \E e \in EnrollmentsOf(s, c) :
                      /\ users'[s].dues_balance =
                            Max0(users[s].dues_balance - e.course_fee)
                      /\ OthersUnchanged(s)
                      /\ enrollments' = enrollments \ {e}
                      /\ Len(Appended(notifications, notifications')) = 1
                      /\ LastRow(notifications').student_id = s
             /\ EnrollmentsOf(s, c) = {} =>
                   NotFound(resp') /\ UNCHANGED ledger]_vars

\* the clamp: student 1, whose balance an enrollment at fee -1 had brought
\* from 1 to 0, dropped the course of fee 1 and owes 0, not -1
C7_Witness ==
    /\ resp = Response("drop", 200, "")
    /\ users[1].dues_balance = 0
    /\ \E e \in enrollments : e.student_id = 1 /\ e.course_fee = -1
\* The requests of RecordPayment that pass the checks made before the policy
\* branch: a positive amount, a student that exists, no proof document of a
\* type the upload refuses.
ValidPayment(s, a, p) == a > 0 /\ UserExists(s) /\ p # "disallowed"

\* C8: RecordPayment with method BANK_TRANSFER and amount > 0 creates a Payment
\* of status PENDING and leaves every balance as it was, whatever the amount,
\* one above the balance included.
C8_BankTransferPending ==
    [][resp'.op = "pay" =>
       \A s \in Identities, a \in AmountInputs, p \in ProofInputs :
          make_payment(s, a, "BANK_TRANSFER", p) =>
             /\ users' = users
             /\ ValidPayment(s, a, p) =>
                   /\ resp'.status = 201
                   /\ Len(Appended(payments, payments')) = 1
                   /\ LastRow(payments').student_id = s
                   /\ LastRow(payments').amount = a
                   /\ LastRow(payments').status = "PENDING"]_vars

\* a bank transfer of more than the student owes, recorded as PENDING
C8_Witness ==
    /\ resp = Response("pay", 201, "")
    /\ Len(payments) > 0
    /\ LastRow(payments).status = "PENDING"
    /\ LastRow(payments).payment_method = "BANK_TRANSFER"
    /\ LastRow(payments).amount > users[LastRow(payments).student_id].dues_balance
    /\ LastRow(notifications).notification_type = "PAYMENT_SUBMITTED"

\* C9: RecordPayment with a method other than BANK_TRANSFER and an amount
\* above the student's balance is rejected with the invalid-argument error;
\* no Payment and no Notification row is created and the balances stay.
C9_OverpaymentRejected ==
    [][resp'.op = "pay" =>
       \A s \in Identities, a \in AmountInputs, p \in ProofInputs :
       \A m \in PaymentMethods \ {"BANK_TRANSFER"} :
          (/\ make_payment(s, a, m, p)
           /\ UserExists(s)
           /\ a > users[s].dues_balance) =>
             /\ InvalidArgument(resp')
             /\ UNCHANGED <<payments, notifications, users>>]_vars

\* a positive amount refused for being above the dues
C9_Witness ==
    /\ resp.op = "pay"
    /\ resp.status = 400
    /\ resp.error = "Payment amount exceeds outstanding dues"

\* C10: a successful RecordPayment with a method other than BANK_TRANSFER
\* creates a Payment of status RECEIVED and sets the balance to the old
\* balance less the amount; an amount equal to the balance leaves exactly 0,
\* and the balance never goes below 0.
C10_ImmediatePayment ==
    [][resp'.op = "pay" =>
       \A s \in Identities, a \in AmountInputs, p \in ProofInputs :
       \A m \in PaymentMethods \ {"BANK_TRANSFER"} :
          (make_payment(s, a, m, p) /\ resp'.status = 201) =>
             /\ Len(Appended(payments, payments')) = 1
             /\ LastRow(payments').student_id = s
             /\ LastRow(payments').amount = a
             /\ LastRow(payments').status = "RECEIVED"
             /\ users'[s].dues_balance = users[s].dues_balance - a
             /\ users'[s].dues_balance >= 0
             /\ a = users[s].dues_balance => users'[s].dues_balance = 0
             /\ OthersUnchanged(s)]_vars

\* a payment of the whole balance: received, and the student owes 0
C10_Witness ==
    /\ resp = Response("pay", 201, "")
    /\ Len(payments) > 0
    /\ LastRow(payments).status = "RECEIVED"
    /\ LastRow(payments).recorded_by = NoValue
    /\ LastRow(payments).amount = 2
    /\ users[LastRow(payments).student_id].dues_balance = 0
NonPositive(amounts) == {a \in amounts : a <= 0}
Admins(callers) == {c \in callers : IsAdmin(c)}

\* C11: RecordPayment, RecordExternalPayment and ApplyPenalty each reject an
\* amount <= 0 with the invalid-argument error before any mutation: no
\* Payment, Penalty, Notification or ActionLog row is created and no balance
\* changes.  (The two admin operations are those of a caller who is an admin.)
C11_NonPositiveAmountRejected ==
    [][/\ resp'.op = "pay" =>
          \A a \in NonPositive(AmountInputs), s \in Identities,
             m \in PaymentMethods, p \in ProofInputs :
             make_payment(s, a, m, p) =>
                InvalidArgument(resp') /\ UNCHANGED ledger
       /\ resp'.op = "record_payment" =>
          \A a \in NonPositive(AmountInputs), s \in Identities,
             adm \in Admins(Callers), m \in PaymentMethods :
             record_external_payment(adm, s, a, m) =>
                InvalidArgument(resp') /\ UNCHANGED ledger
       /\ resp'.op = "penalty" =>
          \A a \in NonPositive(AmountInputs), s \in Identities,
             adm \in Admins(Callers) :
             apply_penalty(adm, s, a) =>
                InvalidArgument(resp') /\ UNCHANGED ledger]_vars

\* a penalty of a non-positive amount refused, after a payment was recorded
C11_Witness ==
    /\ resp = Response("penalty", 400, "penalty_amount must be a positive number")
    /\ Len(payments) > 0
\* C12: a successful RecordExternalPayment(admin, student, amount, method)
\* creates a Payment of status RECEIVED whatever the method, BANK_TRANSFER
\* included, sets the balance to max(0, old balance - amount), also when the
\* amount is above the balance, and adds one notification and one action-log
\* entry whose performer is the acting admin.
C12_ExternalPayment ==
    [][resp'.op = "record_payment" /\ resp'.status = 201 =>
       \A adm \in Callers, s \in Identities, a \in AmountInputs,
          m \in PaymentMethods :
          record_external_payment(adm, s, a, m) =>
             /\ Appended(payments, payments') =
                   <<Payment(s, a, m, "RECEIVED", adm)>>
             /\ users'[s].dues_balance = Max0(users[s].dues_balance - a)
             /\ OthersUnchanged(s)
             /\ Len(Appended(notifications, notifications')) = 1
             /\ LastRow(notifications').student_id = s
             /\ Len(Appended(action_logs, action_logs')) = 1
             /\ LastRow(action_logs').student_id = s
             /\ LastRow(action_logs').performed_by = adm
             /\ IsAdmin(adm)]_vars

\* the first operation on the seeded data: admin 3 recorded a bank transfer
\* of 2 for student 1, who owed 1 and now owes 0
C12_Witness ==
    /\ resp = Response("record_payment", 201, "")
    /\ payments = <<Payment(1, 2, "BANK_TRANSFER", "RECEIVED", 3)>>
    /\ Len(notifications) = 1
    /\ users[1].dues_balance = 0
\* C13: a successful ApplyPenalty(admin, student, amount) raises the student's
\* balance by exactly the amount, with no clamp and whatever the balance, 0
\* included, and creates one Penalty row, one PENALTY_APPLIED notification and
\* one action-log entry; for a student that does not exist it fails with
\* not-found and changes nothing.
C13_ApplyPenalty ==
    [][resp'.op = "penalty" =>
       \A adm \in Callers, s \in Identities, a \in AmountInputs :
          apply_penalty(adm, s, a) =>
             /\ resp'.status = 200 =>
                   /\ users'[s].dues_balance = users[s].dues_balance + a
                   /\ OthersUnchanged(s)
                   /\ Appended(penalties, penalties') = <<Penalty(s, a, adm)>>
                   /\ Appended(notifications, notifications') =
                         <<Notification(s, "PENALTY_APPLIED")>>
                   /\ Len(Appended(action_logs, action_logs')) = 1
                   /\ LastRow(action_logs').student_id = s
                   /\ UNCHANGED <<enrollments, payments>>
             /\ (IsAdmin(adm) /\ a > 0 /\ ~UserExists(s)) =>
                   NotFound(resp') /\ UNCHANGED ledger]_vars

\* a penalty applied to a student who owed 0
C13_Witness ==
    /\ resp = Response("penalty", 200, "")
    /\ penalties = <<Penalty(1, 2, 3)>>
    /\ users[1].dues_balance = 2
    /\ Len(payments) = 1
\* C14: ApplyPenalty never leaves a student's balance lower than it was, and
\* RecordPayment and RecordExternalPayment never leave it higher than it was.
C14_Monotone ==
    [][/\ resp'.op = "penalty" =>
          \A u \in DOMAIN users : users'[u].dues_balance >= users[u].dues_balance
       /\ resp'.op \in {"pay", "record_payment"} =>
          \A u \in DOMAIN users : users'[u].dues_balance <= users[u].dues_balance]_vars
\* The students a list of ids names: the entries with a users row that is not
\* an admin's.
Named(student_ids) ==
    {i \in DOMAIN student_ids :
        UserExists(student_ids[i]) /\ ~users[student_ids[i]].is_admin}
IsBlockedWith(user, reason, now) ==
    user.is_blocked /\ user.blocked_at = now /\ user.blocked_reason = reason
RowsFor(rows, s) == {i \in DOMAIN rows : rows[i].student_id = s}
BalancesUnchanged ==
    \A u \in DOMAIN users : users'[u].dues_balance = users[u].dues_balance

\* C15: BlockRegistration and BulkBlock set is_blocked, blocked_at and
\* blocked_reason of the targeted students and add a notification and an
\* action-log entry for each, and leave every balance and all Enrollment,
\* Payment and Penalty rows as they were.
C15_BlockOnlyFlags ==
    [][/\ resp'.op \in {"block", "bulk_block"} =>
             BalancesUnchanged /\ UNCHANGED <<enrollments, payments, penalties>>
       /\ resp'.op = "block" /\ resp'.status = 200 =>
          \A adm \in Callers, s \in Identities, r \in ReasonInputs,
             t \in Timestamps :
             block_student(adm, s, r, t, TRUE) =>
                /\ IsBlockedWith(users'[s], r, t)
                /\ Appended(notifications, notifications') =
                      <<Notification(s, "REGISTRATION_BLOCKED")>>
                /\ Len(Appended(action_logs, action_logs')) = 1
                /\ LastRow(action_logs').student_id = s
       /\ resp'.op = "bulk_block" /\ resp'.status = 200 =>
          \A adm \in Callers, l \in StudentIdLists, r \in ReasonInputs,
             t \in Timestamps :
             bulk_block(adm, l, r, t, TRUE) =>
                /\ \A i \in Named(l) :
                      /\ IsBlockedWith(users'[l[i]], r, t)
                      /\ RowsFor(Appended(notifications, notifications'), l[i]) # {}
                      /\ RowsFor(Appended(action_logs, action_logs'), l[i]) # {}
                /\ Len(Appended(notifications, notifications')) = Cardinality(Named(l))
                /\ Len(Appended(action_logs, action_logs')) = Cardinality(Named(l))]_vars

\* a bulk block of both students, who owe what they owed
C15_Witness ==
    /\ resp.op = "bulk_block" /\ resp.status = 200
    /\ \A s \in StudentIds :
          /\ IsBlockedWith(users[s], "Outstanding dues", "2025-12-10T15:30:00")
          /\ users[s].dues_balance = s
    /\ Len(notifications) = 2
\* No handler writes is_blocked other than to set it: a blocked student stays
\* blocked in every step of every handler.
BlockedStays ==
    [][\A u \in DOMAIN users : users[u].is_blocked => users'[u].is_blocked]_vars

\* C16: every student that has been blocked can be unblocked: after
\* BlockRegistration a state with is_blocked = false comes again.
C16_Unblockable ==
    \A s \in StudentIds : users[s].is_blocked ~> ~users[s].is_blocked
\* The entries of a list of ids that name a student who owes something.
WithDues(student_ids) ==
    {i \in Named(student_ids) : users[student_ids[i]].dues_balance > 0}
Occurrences(student_ids, s) ==
    Cardinality({i \in WithDues(student_ids) : student_ids[i] = s})

\* C17: BulkPenalty over a list of student ids processes every id in order and
\* never stops at a bad one: each existing non-admin student with
\* dues_balance > 0 is penalized, the balance going up by the penalty amount,
\* each id with no student is reported failed, each student with
\* dues_balance <= 0 is reported skipped and keeps the balance, and the call
\* answers success with one details entry per id.
C17_BulkPenaltyPartial ==
    [][resp'.op = "bulk_penalty" =>
       \A adm \in Admins(Callers), l \in StudentIdLists \ {<<>>},
          a \in AmountInputs \ NonPositive(AmountInputs) :
          bulk_penalty(adm, l, a, TRUE) =>
             /\ resp'.status = 200
             /\ Len(resp'.details) = Len(l)
             /\ \A i \in DOMAIN l :
                   /\ resp'.details[i].student_id = l[i]
                   /\ resp'.details[i].status =
                         IF i \notin Named(l) THEN "failed"
                         ELSE IF i \notin WithDues(l) THEN "skipped"
                         ELSE NoValue
             /\ \A u \in DOMAIN users :
                   users'[u].dues_balance =
                      users[u].dues_balance + a * Occurrences(l, u)
             /\ Len(Appended(penalties, penalties')) = Cardinality(WithDues(l))
             /\ \A i \in DOMAIN Appended(penalties, penalties') :
                   Appended(penalties, penalties')[i].amount = a]_vars

\* student 2, who owes, penalized; id 4, of no student, failed; student 1, who
\* owes nothing after dropping the one course, skipped
C17_Witness ==
    /\ resp.op = "bulk_penalty" /\ resp.status = 200
    /\ resp.details = <<Detail(2, NoValue), Detail(4, "failed"), Detail(1, "skipped")>>
    /\ users[2].dues_balance = 3
    /\ users[1].dues_balance = 0
    /\ penalties = <<Penalty(2, 1, 3)>>
\* C18: in BulkReminder, BulkPenalty and BulkBlock each student's mutation is
\* committed on its own: when persistence fails after students were
\* processed, the mutations of the students processed before the failure
\* stay: their reminder, their penalty, their block.
C18_IndependentCommit ==
    [][/\ resp'.op = "bulk_penalty" =>
          \A adm \in Admins(Callers), l \in StudentIdLists,
             a \in AmountInputs \ NonPositive(AmountInputs) :
             bulk_penalty(adm, l, a, FALSE) =>
                \A i \in WithDues(l) :
                   /\ users'[l[i]].dues_balance > users[l[i]].dues_balance
                   /\ RowsFor(Appended(penalties, penalties'), l[i]) # {}
       /\ resp'.op = "bulk_block" =>
          \A adm \in Admins(Callers), l \in StudentIdLists, r \in ReasonInputs,
             t \in Timestamps :
             bulk_block(adm, l, r, t, FALSE) =>
                \A i \in Named(l) : users'[l[i]].is_blocked
       /\ resp'.op = "bulk_reminder" =>
          \A adm \in Admins(Callers), l \in StudentIdLists :
             bulk_reminder(adm, FALSE, l, FALSE) =>
                \A i \in Named(l) :
                   RowsFor(Appended(notifications, notifications'), l[i]) # {}]_vars

\* C19: when the commit of Enroll, DropCourse, RecordPayment,
\* RecordExternalPayment, ApplyPenalty or ManualMatch raises, the operation
\* answers with a failure and the stored state is the one before it; a step
\* that changes the stored state answers with a success; a balance changes
\* only in a step that adds or removes an Enrollment, Payment or Penalty row
\* of that student, and an added Penalty row comes with the balance raised
\* by its amount.
BalanceChanged(u) == users'[u].dues_balance # users[u].dues_balance
CauseRecorded(u) ==
    \/ \E e \in (enrollments' \ enrollments) \cup (enrollments \ enrollments') :
          e.student_id = u
    \/ RowsFor(Appended(payments, payments'), u) # {}
    \/ RowsFor(Appended(penalties, penalties'), u) # {}
C19_CommitFailureRollsBack ==
    [][/\ resp'.status = 500 => UNCHANGED ledger
       /\ ledger' # ledger => resp'.status \in {200, 201}
       /\ \A u \in DOMAIN users : BalanceChanged(u) => CauseRecorded(u)
       /\ Len(penalties') > Len(penalties) =>
             LET p == LastRow(penalties') IN
             users'[p.student_id].dues_balance =
                users[p.student_id].dues_balance + p.amount
       /\ resp'.op = "penalty" =>
             (apply_penalty_except(Cashier, Payer, 1) =>
                 resp'.status = 500 /\ UNCHANGED ledger)
       /\ resp'.op = "match" =>
             \A t \in TransactionIdInputs, m \in MatchModes, p \in PaymentIdInputs,
                now \in Timestamps :
                match_bank_transaction_except(Cashier, t, m, p, Payer, now) =>
                   resp'.status = 500 /\ UNCHANGED ledger]_vars

\* a match that would have created a payment answered with a failure, the
\* transaction still unmatched, after a payment that was stored
C19_Witness ==
    /\ resp.op = "match" /\ resp.status = 500
    /\ Len(payments) = 1
    /\ bank_transactions[1].status = "Unmatched"
    /\ users[Payer].dues_balance > 0

\* C20: a step that changes a student's dues_balance adds a Notification or
\* an ActionLog row for that student.
C20_BalanceChangeAudited ==
    [][\A u \in DOMAIN users :
          BalanceChanged(u) =>
             \/ RowsFor(Appended(notifications, notifications'), u) # {}
             \/ RowsFor(Appended(action_logs, action_logs'), u) # {}]_vars

\* C21: an import never adds a BankTransaction for a bank_ref that has one
\* and leaves every existing row as it was; an import that answers with its
\* counts has counted in duplicates_skipped every entry with all three
\* fields whose bank_ref had a row or came earlier in the list; and
\* importing the same list again leaves the table as the first import left
\* it.
Complete(e) ==
    e.bank_re # "absent" /\ e.amount \notin {"absent", NoValue} /\ e.date # "absent"
Refs(rows) == {rows[i].bank_ref : i \in DOMAIN rows}
Duplicates(l) ==
    {i \in DOMAIN l :
        /\ Complete(l[i])
        /\ \/ l[i].bank_re \in Refs(bank_transactions)
           \/ \E j \in 1 .. i - 1 : Complete(l[j]) /\ l[j].bank_re = l[i].bank_re}
\* the table after the loop of an import of l over the rows in table: as the
\* loop left it, or as it was when an entry raised
Looped(table, l, now, o) ==
    SyncAll([SyncSession EXCEPT !.bank_transactions = table], Cashier, l, now, o)
Imported(table, l, now, o) ==
    LET session == Looped(table, l, now, o) IN
    IF session.raised THEN table ELSE session.bank_transactions
C21_ImportIdempotent ==
    \A l \in TransactionLists, now \in Timestamps, o \in RowOrders :
       LET session == Looped(bank_transactions, l, now, o)
           once == Imported(bank_transactions, l, now, o)
       IN
       /\ SubSeq(once, 1, Len(bank_transactions)) = bank_transactions
       /\ \A i, j \in DOMAIN once : once[i].bank_ref = once[j].bank_ref => i = j
       /\ ~session.raised =>
             session.counts.duplicates_skipped = Cardinality(Duplicates(l))
       /\ Imported(once, l, now, o) = once

\* an import that skipped its one entry as a duplicate of a row which an
\* earlier import had matched
C21_Witness ==
    /\ resp.op = "sync" /\ resp.status = 200
    /\ resp.details = <<Counts(0, 0, 0, 1)>>
    /\ Len(bank_transactions) = 1
    /\ bank_transactions[1].status = "Matched"

\* C22: every BankTransaction that an import adds is Matched, stamped with
\* a payment, that payment's student, the importing admin and the time of
\* the import, exactly when some Payment has its amount and a payment_date
\* no more than 7 days (of 24 hours) before or after its transaction_date;
\* otherwise it is Unmatched and carries no stamp.
Within7Days(payment_date, transaction_date) ==
    /\ payment_date - transaction_date <= 7 * MinutesPerDay
    /\ transaction_date - payment_date <= 7 * MinutesPerDay
Matching(row) ==
    {i \in DOMAIN payments :
        /\ payments[i].amount = row.amount
        /\ Within7Days(payments[i].payment_date, row.transaction_date)}
C22_AutoMatch ==
    [][resp'.op = "sync" =>
          \A k \in DOMAIN bank_transactions' \ DOMAIN bank_transactions :
             LET row == bank_transactions'[k] IN
             IF Matching(row) # {}
             THEN /\ row.status = "Matched"
                  /\ row.matched_payment_id \in Matching(row)
                  /\ row.matched_student_id = payments[row.matched_payment_id].student_id
                  /\ row.matched_by = Cashier
                  /\ row.matched_at \in Timestamps
             ELSE /\ row.status = "Unmatched"
                  /\ row.matched_payment_id = NoId
                  /\ row.matched_student_id = NoId
                  /\ row.matched_by = NoId
                  /\ row.matched_at = NoValue]_vars

\* one import with a payment of 1 and a payment of 2 made at UtcNow: the
\* transaction of 1 dated 2025-12-04 matched, the transaction of 2 dated
\* 2025-12-03 not
C22_Witness ==
    /\ resp.op = "sync" /\ resp.status = 200
    /\ resp.details = <<Counts(2, 1, 1, 0)>>
    /\ \E i, j \in DOMAIN bank_transactions :
          /\ bank_transactions[i].status = "Matched"
          /\ bank_transactions[i].amount = 1
          /\ bank_transactions[j].status = "Unmatched"
          /\ bank_transactions[j].amount = 2
          /\ \E p \in DOMAIN payments : payments[p].amount = 2

\* C23: in an import, an entry without a bank reference, an amount or a date
\* adds no BankTransaction, and every entry of the list that has all three
\* has a BankTransaction after the import, whatever comes before or after
\* it in the list.
Lacking(e) ==
    e.bank_re = "absent" \/ e.amount \in {"absent", NoValue} \/ e.date = "absent"
C23_EntryFailsAlone ==
    [][resp'.op = "sync" =>
          \A l \in TransactionLists, now \in Timestamps, o \in RowOrders :
             sync_bank_data(Cashier, "manual", l, now, o) =>
                /\ \A i \in DOMAIN l :
                      ~Lacking(l[i]) => l[i].bank_re \in Refs(bank_transactions')
                /\ Len(bank_transactions') - Len(bank_transactions)
                      <= Cardinality({i \in DOMAIN l : ~Lacking(l[i])})]_vars

\* C24: a ManualMatch of a transaction to an existing Payment answers with
\* not-found and changes nothing when the transaction or the payment does
\* not exist; otherwise it marks the transaction Matched, stamps it with the
\* payment, the payment's student, the admin and the time, and leaves every
\* other transaction, every user and every Payment row as they were.
C24_MatchExistingPayment ==
    [][resp'.op = "match" =>
          \A t \in TransactionIdInputs, p \in PaymentIdInputs, s \in Targets,
             now \in Timestamps :
             match_bank_transaction(Cashier, t, "payment_id", p, s, now) =>
                IF t \notin DOMAIN bank_transactions \/ p \notin DOMAIN payments
                THEN NotFound(resp') /\ UNCHANGED ledger
                ELSE /\ resp'.status = 200
                     /\ bank_transactions'[t] =
                           [bank_transactions[t] EXCEPT
                              !.status = "Matched",
                              !.matched_payment_id = p,
                              !.matched_student_id = payments[p].student_id,
                              !.matched_by = Cashier,
                              !.matched_at = now]
                     /\ DOMAIN bank_transactions' = DOMAIN bank_transactions
                     /\ \A k \in DOMAIN bank_transactions \ {t} :
                           bank_transactions'[k] = bank_transactions[k]
                     /\ UNCHANGED <<users, payments, enrollments, penalties>>]_vars

\* a transaction matched to a payment that is still PENDING, the student's
\* balance as it was before
C24_Witness ==
    /\ resp.op = "match" /\ resp.status = 200
    /\ bank_transactions[1].status = "Matched"
    /\ bank_transactions[1].matched_payment_id = 1
    /\ Len(payments) = 1
    /\ payments[1].status = "PENDING"
    /\ users[Payer].dues_balance = 1

\* C25: a ManualMatch with create_payment and a student_id answers with
\* not-found and changes nothing when the transaction or the student does
\* not exist; otherwise it adds one RECEIVED Payment of the transaction's
\* amount for the student, sets the student's dues_balance to
\* max(0, balance - amount), leaves every other user as they were, and marks
\* the transaction Matched to the new Payment and to the student.
C25_MatchCreatesPayment ==
    [][resp'.op = "match" =>
          \A t \in TransactionIdInputs, p \in PaymentIdInputs, s \in Targets,
             now \in Timestamps :
             match_bank_transaction(Cashier, t, "create_payment", p, s, now) =>
                IF t \notin DOMAIN bank_transactions \/ s \notin DOMAIN users
                THEN NotFound(resp') /\ UNCHANGED ledger
                ELSE LET amount == bank_transactions[t].amount
                         new == LastRow(payments')
                     IN
                     /\ resp'.status = 200
                     /\ Len(payments') = Len(payments) + 1
                     /\ SubSeq(payments', 1, Len(payments)) = payments
                     /\ new.student_id = s
                     /\ new.status = "RECEIVED"
                     /\ new.amount = amount
                     /\ users'[s].dues_balance = Max0(users[s].dues_balance - amount)
                     /\ OthersUnchanged(s)
                     /\ bank_transactions'[t].status = "Matched"
                     /\ bank_transactions'[t].matched_payment_id = Len(payments')
                     /\ bank_transactions'[t].matched_student_id = s
                     /\ bank_transactions'[t].amount = amount]_vars

\* the transaction of 1 matched to a payment created for a student who had
\* paid the 1 owed: the balance stays 0
C25_Witness ==
    /\ resp.op = "match" /\ resp.status = 200
    /\ Len(payments) = 2
    /\ Len(notifications) = 1
    /\ payments[1].status = "RECEIVED" /\ payments[1].amount = 1
    /\ payments[1].student_id = Payer
    /\ payments[2].status = "RECEIVED" /\ payments[2].amount = 1
    /\ payments[2].student_id = Payer
    /\ bank_transactions[1].matched_payment_id = 2
    /\ bank_transactions[1].matched_student_id = Payer
    /\ users[Payer].dues_balance = 0

\* C26: the suggestions for a transaction are at most 10, with every HIGH
\* one before every MEDIUM one; they hold a HIGH suggestion for every
\* student who owes exactly the transaction's amount, a MEDIUM one for every
\* other student who owes something within 10% of the amount, a HIGH one for
\* every RECEIVED Payment of the amount dated within 7 days of the
\* transaction, and nothing else.
Expected(transaction) ==
    {Suggestion("student", u, "HIGH") :
        u \in {v \in DOMAIN users : /\ ~users[v].is_admin
                                     /\ users[v].dues_balance > 0
                                     /\ users[v].dues_balance = transaction.amount}}
    \cup
    {Suggestion("student", u, "MEDIUM") :
        u \in {v \in DOMAIN users :
                 /\ ~users[v].is_admin
                 /\ users[v].dues_balance > 0
                 /\ users[v].dues_balance # transaction.amount
                 /\ 10 * Abs(users[v].dues_balance - transaction.amount)
                       <= transaction.amount}}
    \cup
    {Suggestion("payment", p, "HIGH") :
        p \in {q \in DOMAIN payments :
                 /\ payments[q].status = "RECEIVED"
                 /\ payments[q].amount = transaction.amount
                 /\ Within7Days(payments[q].payment_date,
                                transaction.transaction_date)}}
C26_Suggestions ==
    [][resp'.op = "suggestions" /\ resp'.status = 200 =>
          \A t \in DOMAIN bank_transactions :
             get_matching_suggestions(Cashier, t) =>
                LET suggestions == resp'.details IN
                /\ Len(suggestions) <= 10
                /\ \A i, j \in DOMAIN suggestions :
                      /\ suggestions[i].match_confidence = "HIGH"
                      /\ suggestions[j].match_confidence = "MEDIUM"
                      => i < j
                /\ {suggestions[i] : i \in DOMAIN suggestions}
                      \subseteq Expected(bank_transactions[t])
                /\ Cardinality(Expected(bank_transactions[t])) <= 10 =>
                      Expected(bank_transactions[t])
                         \subseteq {suggestions[i] : i \in DOMAIN suggestions}]_vars

\* C27: no step changes or removes a Notification or an ActionLog row: the
\* rows before the step are, in their order and unchanged, the first rows
\* after it.
IsPrefix(before, after) ==
    Len(before) <= Len(after) /\ SubSeq(after, 1, Len(before)) = before
C27_AppendOnly ==
    [][IsPrefix(notifications, notifications') /\ IsPrefix(action_logs, action_logs')]_vars

\* a notification of an enrollment still there after the course was dropped
\* and deleted
C27_Witness ==
    /\ resp.op = "delete_course" /\ resp.status = 200
    /\ Len(notifications) = 2
    /\ notifications[1].notification_type = "ENROLLMENT"
    /\ \A e \in enrollments : e.student_id # Payer

\* C28: every user with is_admin set has a dues_balance of 0 and no
\* enrollment.
C28_AdminHasNoDues ==
    \A u \in DOMAIN users :
       users[u].is_admin =>
          /\ users[u].dues_balance = 0
          /\ \A e \in enrollments : e.student_id # u

\* C29: two /pay requests of a method other than BANK_TRANSFER for one
\* student can both pass the overpayment check on the balance that each
\* read before the other committed.  Each request that is between its read
\* and its commit asks for no more than the balance it read; its commit
\* stores a RECEIVED payment and writes the balance it read less its amount,
\* whatever the balance has become since; so the balance never falls below
\* 0, while (C29_Witness) the RECEIVED payments come to exceed what was
\* owed and the balance reflects one of the two payments only.
C29_RacingPayments ==
    [][/\ \A w \in WorkerIds :
             workers'[w].pc = "read" /\ workers'[w].payment_method # "BANK_TRANSFER"
                => workers'[w].amount <= workers'[w].dues_balance
       /\ \A u \in StudentIds : users'[u].dues_balance >= 0
       /\ \A w \in WorkerIds :
             make_payment_commit(w) /\ workers[w].payment_method # "BANK_TRANSFER"
                => /\ LastRow(payments').status = "RECEIVED"
                   /\ LastRow(payments').amount = workers[w].amount
                   /\ users'[workers[w].student_id].dues_balance
                         = workers[w].dues_balance - workers[w].amount]_vars

\* student 1 owed 1 and has two RECEIVED payments of 1, the balance is 0
C29_Witness ==
    /\ Len(payments) = 2
    /\ \A i \in DOMAIN payments :
          /\ payments[i].student_id = 1
          /\ payments[i].status = "RECEIVED"
          /\ payments[i].amount = 1
    /\ SumFees({e \in enrollments : e.student_id = 1}) = 1
    /\ users[1].dues_balance = 0
    /\ \A w \in WorkerIds : workers[w] = Idle

\* C30: the dues report lists exactly the users who are not admins, owe
\* more than 0 and owe an amount within the given minimum and maximum; its
\* count is the number of listed students and its total the sum of their
\* balances; the list is in descending order of dues_balance or, on
\* request, in ascending order of username.
Owing(lo, hi) ==
    {u \in DOMAIN users :
        /\ ~users[u].is_admin
        /\ users[u].dues_balance > 0
        /\ lo.given => users[u].dues_balance >= lo.value
        /\ hi.given => users[u].dues_balance <= hi.value}
C30_DuesReport ==
    [][resp'.op = "dues" /\ resp'.status = 200 =>
          \A lo \in AmountFilters, hi \in AmountFilters, by \in SortInputs :
             get_outstanding_dues(Cashier, lo, hi, by) =>
                LET report == resp'.details[1]
                    listed == report.students
                IN
                /\ {listed[i].user_id : i \in DOMAIN listed} = Owing(lo, hi)
                /\ report.total_students_with_dues = Len(listed)
                /\ Len(listed) = Cardinality(Owing(lo, hi))
                /\ report.total_outstanding_amount
                      = SumAmounts([i \in DOMAIN listed |->
                                      [amount |-> listed[i].dues_balance]],
                                   DOMAIN listed)
                /\ \A i, j \in DOMAIN listed :
                      i < j =>
                         IF by = "username"
                         THEN UsernameRank[listed[i].user_id]
                                 < UsernameRank[listed[j].user_id]
                         ELSE listed[i].dues_balance >= listed[j].dues_balance]_vars

\* ------------------------------------------------------------------- C31
\* the numbers of the ids the stored reports of a year have
Seqs(reports, year) == {r.id.number : r \in {x \in reports : x.id.year = year}}

UniqueIds(reports) == \A r, q \in reports : r.id = q.id => r = q

C32_DownloadUntilExpiry ==
    [][resp'.op = "download_report" =>
          \A i \in ReportIdInputs, f \in {"json"} :
             download_report(Cashier, i, f) =>
                LET stored == {r \in generated_reports : r.id = i} IN
                /\ stored = {} => NotFound(resp')
                /\ \A r \in stored :
                      IF clock <= r.generated_at.days + 30
                      THEN /\ resp'.status = 200
                           /\ resp'.details[1].summary = r.summary
                      ELSE resp'.status = 410]_vars


\* ------------------------------------------------------------------- C33
\* C33: no step changes the status of a payment row that exists: a match of
\* a bank transaction to the payment, by an admin or by the import, leaves
\* a PENDING payment PENDING.  A BANK_TRANSFER payment that a student
\* submits is stored PENDING with the balances as they were, and a step
\* takes something off a student's balance only when it adds a RECEIVED
\* payment of that student.
C33_PaymentStatusFixed ==
    [][/\ Len(payments') >= Len(payments)
       /\ \A i \in DOMAIN payments : payments'[i].status = payments[i].status
       /\ \A a \in Owed :
             make_payment(Payer, a, "BANK_TRANSFER", "none") /\ resp'.status = 201
                => /\ LastRow(payments').status = "PENDING"
                   /\ users' = users
       /\ \A s \in DOMAIN users :
             users'[s].dues_balance < users[s].dues_balance
                => /\ Len(payments') = Len(payments) + 1
                   /\ LastRow(payments').status = "RECEIVED"
                   /\ LastRow(payments').student_id = s]_vars

\* the student's BANK_TRANSFER payment is matched by two bank transactions,
\* by the import and by an admin, and is still PENDING with the balance as
\* it was
C33_Witness ==
    /\ Len(bank_transactions) = 2
    /\ \A t \in DOMAIN bank_transactions :
          /\ bank_transactions[t].status = "Matched"
          /\ bank_transactions[t].matched_payment_id = 1
    /\ bank_transactions[2].amount # payments[1].amount
    /\ payments[1].payment_method = "BANK_TRANSFER"
    /\ payments[1].status = "PENDING"
    /\ users[Payer].dues_balance = 1


\* ------------------------------------------------------------------- C34
Stamps(transaction) ==
    {transaction.matched_payment_id # NoId,
     transaction.matched_student_id # NoId,
     transaction.matched_at # NoValue}

Consistent(transaction) ==
    /\ transaction.status \in {"Matched", "Unmatched"}
    /\ transaction.status = "Matched" <=> Stamps(transaction) = {TRUE}
    /\ transaction.status = "Unmatched" <=> Stamps(transaction) = {FALSE}

\* C34: in every state a bank transaction is Matched exactly when its
\* matched_payment_id, matched_student_id and matched_at are all set and
\* Unmatched exactly when none of them is set, and no step takes a Matched
\* transaction back to Unmatched.
C34_MatchedIffStamped ==
    [][/\ \A t \in DOMAIN bank_transactions : Consistent(bank_transactions[t])
       /\ \A t \in DOMAIN bank_transactions' : Consistent(bank_transactions'[t])
       /\ \A t \in DOMAIN bank_transactions :
             bank_transactions[t].status = "Matched"
                => /\ t \in DOMAIN bank_transactions'
                   /\ bank_transactions'[t].status = "Matched"]_vars

\* of two imported transactions the admin has matched the second by making
\* a payment for the student, the first is still unmatched
C34_Witness ==
    /\ resp.op = "match" /\ resp.status = 200
    /\ Len(bank_transactions) = 2
    /\ bank_transactions[1].status = "Unmatched"
    /\ Stamps(bank_transactions[1]) = {FALSE}
    /\ bank_transactions[2].status = "Matched"
    /\ bank_transactions[2].matched_payment_id = Len(payments)
    /\ bank_transactions[2].matched_student_id = Payer
    /\ payments[Len(payments)].payment_date = bank_transactions[2].transaction_date


\* ------------------------------------------------------------------- C35
\* the bank transactions matched to a payment
MatchedTo(payment_id) ==
    {t \in DOMAIN bank_transactions :
        bank_transactions[t].matched_payment_id = payment_id}

\* C35: in every state a payment is the matched payment of at most one bank
\* transaction.
C35_OneTransactionPerPayment ==
    \A p \in DOMAIN payments : Cardinality(MatchedTo(p)) <= 1

\* ------------------------------------------------------------------- C36
\* C36: a match requested for a bank transaction that is Matched already
\* adds no payment and changes no balance, so that a bank transaction takes
\* its amount off a balance at most once.
C36_TransactionCountsOnce ==
    [][resp'.op = "match" =>
          \A t \in DOMAIN bank_transactions, mode \in MatchModes,
             p \in PaymentIdInputs, now \in Timestamps :
             /\ bank_transactions[t].status = "Matched"
             /\ match_bank_transaction(Cashier, t, mode, p, Payer, now)
             => /\ payments' = payments
                /\ users' = users]_vars


\* ------------------------------------------------------------------- C37
\* C37: the deletion of a course by an admin removes the course and every
\* enrollment in it, keeps the enrollments in other courses, and leaves the
\* users rows, so every dues_balance, as they were: a student whose
\* enrollment goes with the course still owes its fee.
C37_DeleteCourseCascades ==
    [][resp'.op = "delete_course" /\ resp'.status = 200 =>
          \A a \in Callers, c \in CourseIdInputs :
             delete_course(a, c) =>
                /\ c \notin DOMAIN courses'
                /\ \A e \in enrollments' : e.course_id # c
                /\ enrollments' = {e \in enrollments : e.course_id # c}
                /\ users' = users
                /\ UNCHANGED <<payments, penalties>>]_vars

\* course 1 was deleted with the enrollment of student 1 in it: the student
\* has no enrollment left and owes the fee of 1
C37_Witness ==
    /\ resp.op = "delete_course" /\ resp.status = 200
    /\ 1 \notin DOMAIN courses
    /\ \A e \in enrollments : e.student_id # 1
    /\ users[1].dues_balance = 1
    /\ payments = <<>>


\* ------------------------------------------------------------------- C38
\* what a request of the student comes to: the status of the answer, the
\* student's balance, the courses the student is enrolled in and the
\* number of payments rows and the status of the last of them
Outcome(Request, status, balance, course_ids, payment_count, last_status) ==
    /\ Request
    /\ resp'.status = status
    /\ users'[Payer].dues_balance = balance
    /\ {e.course_id : e \in {x \in enrollments' : x.student_id = Payer}} = course_ids
    /\ Len(payments') = payment_count
    /\ last_status = IF payments' = <<>> THEN NoValue ELSE LastRow(payments').status

\* The request has the same outcomes after the step as before it.  The
\* outcomes that add a notifications row are compared while the table has
\* room for the row after the step as well.
SameOutcomes(Request) ==
    \A status \in {200, 201, 400, 404}, balance \in 0 .. 3,
       course_ids \in SUBSET CourseIds, payment_count \in 0 .. MaxPayments,
       last_status \in {NoValue, "RECEIVED", "PENDING"} :
       LET before == ENABLED Outcome(Request, status, balance, course_ids,
                                     payment_count, last_status)
           after == (ENABLED Outcome(Request, status, balance, course_ids,
                                     payment_count, last_status))'
       IN /\ after => before
          /\ Len(notifications') < MaxNotifications => (before => after)

RowsOfPair(rows, student_id, course_id) ==
    {e \in rows : e.student_id = student_id /\ e.course_id = course_id}

\* C39: when two /enroll requests for the same student and course are
\* served at the same time, the pair never has more than one enrollments
\* row; the commit that adds the row adds the course fee to the student's
\* balance once, and the commit that comes second adds no row and leaves
\* the balance as it is.
C39_RacingEnrollments ==
    [][/\ \A s \in StudentIds, c \in CourseIds :
             Cardinality(RowsOfPair(enrollments', s, c)) <= 1
       /\ \A w \in WorkerIds :
             enroll_course_commit(w) =>
                LET s == workers[w].student_id
                    c == workers[w].course_id
                    created == RowsOfPair(enrollments', s, c)
                                  \ RowsOfPair(enrollments, s, c)
                IN /\ Cardinality(created) <= 1
                   /\ users'[s].dues_balance
                         = users[s].dues_balance
                              + Cardinality(created) * courses[c].total_fee
                   /\ RowsOfPair(enrollments, s, c) # {}
                         => /\ created = {}
                            /\ resp'.status = 500
                            /\ UNCHANGED <<users, enrollments, notifications,
                                           action_logs>>]_vars

\* both workers took the request of student 1 for course 2 before either
\* committed: one enrollment row for the pair, the fee of 2 added once, the
\* second commit answered 500
C39_Witness ==
    /\ resp.op = "enroll" /\ resp.status = 500
    /\ \A w \in WorkerIds : workers[w] = Idle
    /\ Cardinality(RowsOfPair(enrollments, 1, 2)) = 1
    /\ users[1].dues_balance = 3
    /\ Len(notifications) = 1

====
